---- MODULE Spec2Model ----
(***************************************************************************)
(* Verification model of rag-mongo-demo.                                   *)
(*                                                                         *)
(*  SpecIngest : the embedding scripts (create-embeddings-openai-direct,   *)
(*               create-embeddings-batch, create-userstories-embeddings-   *)
(*               batch): p-limit scheduler, retry loop, batched writer,    *)
(*               main loop; and download-batch-results writing to the      *)
(*               same store.                                               *)
(*  SpecJobs   : the server's in-memory job registry, the background       *)
(*               processEmbeddings loop and the periodic sweep.            *)
(***************************************************************************)
EXTENDS Integers, Sequences, FiniteSets, TLC

VARIABLES
    \* ---- embedding scripts ----
    program,              \* which script is running
    testcases,            \* number of input records (records are 1..testcases)
    mainPc,               \* position of main()
    i,                    \* offset of the current batch (the for-loop variable)
    workers,              \* per record: state of its generateEmbedding task
    result,               \* per record: the value its task resolved to
    queue,                \* tasks waiting inside embeddingLimit (FIFO)
    successfulEmbeddings, \* records of the current batch that embedded
    store,                \* documents in the MongoDB collection
    totalInserted,
    totalFailed,
    totalCost,            \* sum of the batches' costs
    totalTokens,          \* sum of the batches' tokens
    processedCount,
    j,                    \* offset of the current sub-batch inside the batch
    insertedInBatch,
    failedInBatch,
    lastInsert,           \* last call of the batched writer: its group and return value
    \* ---- download-batch-results ----
    batchStatus,          \* status of the retrieved OpenAI batch
    importResults,        \* parsed lines of the batch output file
    documents,            \* documents built by the import loop
    \* ---- job tracker ----
    now,                  \* wall clock, minutes
    nextSweep,            \* time the cleanup interval fires next
    jobs,                 \* the registry: jobId -> job | NoJob
    pipe,                 \* per job: local state of processEmbeddings
    disk,                 \* temp script files in the server's directory
    \* ---- search endpoints (server) ----
    req,                  \* body of the search request being handled
    env,                  \* what the request finds: store, indexes, provider
    searchPc,             \* position of the request's handler
    issued,               \* search queries sent to the store so far
    bm25Results,          \* lexical candidates: [id, score], best first
    vectorResults,        \* vector candidates: [id, score], best first
    response,             \* the response sent to the caller
    indexFilters,         \* methods whose index query was given the filters
    \* ---- POST /api/search/deduplicate ----
    dedup,                \* the request and, once handled, its response
    \* ---- user story analysis (client) ----
    analysis,             \* local state of handleAnalyze
    \* ---- pacing of the batch loop ----
    pacing,               \* main(): the loop over the batches and its delays
    \* ---- validateDbCollectionIndex (server) ----
    validation            \* one call: its arguments, the cluster, its position

ingestVars == <<program, testcases, mainPc, i, workers, result, queue,
                successfulEmbeddings, store, totalInserted, totalFailed, totalCost, totalTokens,
                processedCount, j, insertedInBatch, failedInBatch, lastInsert>>
importVars == <<batchStatus, importResults, documents>>
jobVars == <<now, nextSweep, jobs, pipe, disk>>
searchVars == <<req, env, searchPc, issued, bm25Results, vectorResults, response,
                indexFilters>>
dedupVars == <<dedup>>
clientVars == <<analysis>>
pacingVars == <<pacing>>
checkVars == <<validation>>
vars == <<program, testcases, mainPc, i, workers, result, queue,
          successfulEmbeddings, store, totalInserted, totalFailed, totalCost, totalTokens,
          processedCount, j, insertedInBatch, failedInBatch, lastInsert,
          batchStatus, importResults, documents,
          now, nextSweep, jobs, pipe, disk,
          req, env, searchPc, issued, bm25Results, vectorResults, response,
          indexFilters,
          dedup, analysis, pacing, validation>>

(***************************************************************************)
(* Bounds of the model.  BATCH_SIZE and CONCURRENT_LIMIT are the scripts'  *)
(* constants scaled down (100/50, 50/10, 20/8 in the sources); the scaled  *)
(* values keep BATCH_SIZE > CONCURRENT_LIMIT so that the limiter queues.   *)
(***************************************************************************)
MaxRecords == 4
CONCURRENT_LIMIT == 2
MaxLines == 2

MaxFiles == 2
MaxTime == 70
TickStep == 10

\* program constants
maxRetries == 3
\* retention window and sweep period of the job registry, in minutes
RETENTION == 60
SWEEP_INTERVAL == 10

EmbeddingScripts == {"openai-direct", "testleaf-testcases", "testleaf-userstories"}
Programs == EmbeddingScripts \cup {"download-batch-results"}

\* scaled: every script has BATCH_SIZE > CONCURRENT_LIMIT
BATCH_SIZE == CONCURRENT_LIMIT + 1

\* every script keeps MONGODB_BATCH_SIZE >= 2 * BATCH_SIZE (200/100, 100/50, 50/20)
MONGODB_BATCH_SIZE == 2 * BATCH_SIZE

\* HTTP-style status carried by a provider error: 429 rate limit, 400 other
\* 4xx (terminal in the spec's taxonomy), 500 server error / timeout
ErrorStatuses == {429, 400, 500}

Records == 1..MaxRecords
\* a missing (undefined) value; an optional object is a sequence of length 0 or 1
Undefined == "undefined"
NoObject == <<>>
NoResult == [kind |-> "none", error |-> 0, embedding |-> Undefined,
             cost |-> 0, tokens |-> 0, metadata |-> NoObject]
Min(a, b) == IF a < b THEN a ELSE b

(***************************************************************************)
(* Embedding worker: generateEmbeddingDirect / generateTestcaseEmbedding / *)
(* generateUserStoryEmbedding, each wrapped in embeddingLimit(...).        *)
(***************************************************************************)
IdleWorker == [st |-> "idle", attempt |-> 0, calls |-> 0, err |-> 0, wait |-> 0]

\* tasks currently running inside the limiter (p-limit's activeCount)
activeCount == Cardinality({r \in Records : workers[r].st \in {"calling", "sleeping"}})

\* provider calls awaiting their response
inFlight == Cardinality({r \in Records : workers[r].st = "calling"})

\* a limiter that never makes a task wait
embeddingLimit_Uncapped(active) == TRUE

\* pLimit(CONCURRENT_LIMIT): a queued task starts only while fewer than
\* CONCURRENT_LIMIT tasks are running
embeddingLimit(active) == active < CONCURRENT_LIMIT

\* a retry loop that runs one iteration too many
retryLoopCondition_OffByOne(attempt) == attempt <= maxRetries + 1

\* for (let attempt = 1; attempt <= maxRetries; attempt++)
retryLoopCondition(attempt) == attempt <= maxRetries

\* the catch block: does the worker sleep before the next loop iteration?
\* openai-direct: 429 always waits, other errors wait while attempt < maxRetries;
\* the Testleaf scripts wait while attempt < maxRetries whatever the error
catchSleeps(prog, status, attempt) ==
    IF prog = "openai-direct"
    THEN status = 429 \/ attempt < maxRetries
    ELSE attempt < maxRetries

\* the longest wait after a rate limit, seconds (10000 ms)
maxWaitTime == 10

\* a wait that grows by one second per attempt
waitTime_Linear(prog, status, attempt) == attempt

\* the catch block: seconds the worker sleeps.  openai-direct after a 429:
\* Math.min(1000 * Math.pow(2, attempt), 10000); every other wait:
\* 1000 * attempt
waitTime(prog, status, attempt) ==
    IF prog = "openai-direct" /\ status = 429
    THEN Min(2 ^ attempt, maxWaitTime)
    ELSE attempt

\* cost in units of 1e-8 dollars: openai-direct computes (tokens/1000)*0.00002,
\* the Testleaf scripts take the cost the provider reports (one unit per token here)
costOf(prog, tokens) == IF prog = "openai-direct" THEN 2 * tokens ELSE tokens

\* tokens the provider may report, in units of one request's usage:
\* usage.total_tokens, or 0 in the Testleaf scripts when usage is missing ("|| 0")
TokenChoices(prog) == IF prog = "openai-direct" THEN {1} ELSE {0, 1}

apiSourceOf(prog) == IF prog = "openai-direct" THEN "openai-direct" ELSE "testleaf"

successResult(prog, tokens) ==
    [kind |-> "ok", error |-> 0, embedding |-> "vector",
     cost |-> costOf(prog, tokens), tokens |-> tokens,
     metadata |-> <<[cost |-> costOf(prog, tokens), tokens |-> tokens,
                     apiSource |-> apiSourceOf(prog)]>>]

errorResult(status) ==
    [kind |-> "error", error |-> status, embedding |-> Undefined,
     cost |-> 0, tokens |-> 0, metadata |-> NoObject]

\* slice(i, i + BATCH_SIZE) of the input, as a sequence of record numbers
batchOf(off) == [k \in 1..(Min(off + BATCH_SIZE, testcases) - off) |-> off + k]

SeqToSet(s) == {s[k] : k \in 1..Len(s)}

\* embeddingLimit dequeues the oldest waiting task and runs it up to the
\* first provider call (attempt 1)
LimitNext ==
    /\ mainPc = "embedding"
    /\ queue # <<>>
    /\ embeddingLimit(activeCount)
    /\ workers' = [workers EXCEPT ![Head(queue)] =
                      [st |-> "calling", attempt |-> 1, calls |-> 1, err |-> 0,
                       wait |-> 0]]
    /\ queue' = Tail(queue)
    /\ UNCHANGED <<program, testcases, mainPc, i, result, successfulEmbeddings,
                   store, totalInserted, totalFailed, totalCost, totalTokens, processedCount, j,
                   insertedInBatch, failedInBatch, lastInsert>>
    /\ UNCHANGED importVars
    /\ UNCHANGED jobVars
    /\ UNCHANGED searchVars
    /\ UNCHANGED dedupVars
    /\ UNCHANGED clientVars
    /\ UNCHANGED pacingVars
    /\ UNCHANGED checkVars

\* the provider answers with an embedding: the task returns a success result
\* (lastError is not part of it)
ProviderSuccess(r) ==
    /\ workers[r].st = "calling"
    /\ \E tokens \in TokenChoices(program) :
          result' = [result EXCEPT ![r] = successResult(program, tokens)]
    /\ workers' = [workers EXCEPT ![r].st = "done", ![r].err = 0]
    /\ UNCHANGED <<program, testcases, mainPc, i, queue, successfulEmbeddings,
                   store, totalInserted, totalFailed, totalCost, totalTokens, processedCount, j,
                   insertedInBatch, failedInBatch, lastInsert>>
    /\ UNCHANGED importVars
    /\ UNCHANGED jobVars
    /\ UNCHANGED searchVars
    /\ UNCHANGED dedupVars
    /\ UNCHANGED clientVars
    /\ UNCHANGED pacingVars
    /\ UNCHANGED checkVars

\* a loop that gives up as soon as the error is a 4xx other than 429
nextAttempt_StopOnTerminal(w, status) ==
    IF status # 400 /\ w.attempt + 1 <= maxRetries
    THEN [st |-> "calling", attempt |-> w.attempt + 1, calls |-> w.calls + 1,
          err |-> status, wait |-> 0]
    ELSE [st |-> "done", attempt |-> w.attempt + 1, calls |-> w.calls,
          err |-> status, wait |-> 0]

\* continuation of the for loop after the catch block: attempt++, then either
\* the next provider call or the final error result
nextAttempt(w, status) ==
    IF retryLoopCondition(w.attempt + 1)
    THEN [st |-> "calling", attempt |-> w.attempt + 1, calls |-> w.calls + 1,
          err |-> status, wait |-> 0]
    ELSE [st |-> "done", attempt |-> w.attempt + 1, calls |-> w.calls,
          err |-> status, wait |-> 0]

\* the provider call throws with the given status
ProviderError(r, status) ==
    /\ workers[r].st = "calling"
    /\ LET w == workers[r]
           w2 == IF catchSleeps(program, status, w.attempt)
                 THEN [w EXCEPT !.st = "sleeping", !.err = status,
                                 !.wait = waitTime(program, status, w.attempt)]
                 ELSE nextAttempt(w, status)
       IN /\ workers' = [workers EXCEPT ![r] = w2]
          /\ result' = IF w2.st = "done"
                       THEN [result EXCEPT ![r] = errorResult(status)]
                       ELSE result
    /\ UNCHANGED <<program, testcases, mainPc, i, queue, successfulEmbeddings,
                   store, totalInserted, totalFailed, totalCost, totalTokens, processedCount, j,
                   insertedInBatch, failedInBatch, lastInsert>>
    /\ UNCHANGED importVars
    /\ UNCHANGED jobVars
    /\ UNCHANGED searchVars
    /\ UNCHANGED dedupVars
    /\ UNCHANGED clientVars
    /\ UNCHANGED pacingVars
    /\ UNCHANGED checkVars

\* the backoff timer of a sleeping task fires
BackoffElapsed(r) ==
    /\ workers[r].st = "sleeping"
    /\ LET w2 == nextAttempt(workers[r], workers[r].err)
       IN /\ workers' = [workers EXCEPT ![r] = w2]
          /\ result' = IF w2.st = "done"
                       THEN [result EXCEPT ![r] = errorResult(w2.err)]
                       ELSE result
    /\ UNCHANGED <<program, testcases, mainPc, i, queue, successfulEmbeddings,
                   store, totalInserted, totalFailed, totalCost, totalTokens, processedCount, j,
                   insertedInBatch, failedInBatch, lastInsert>>
    /\ UNCHANGED importVars
    /\ UNCHANGED jobVars
    /\ UNCHANGED searchVars
    /\ UNCHANGED dedupVars
    /\ UNCHANGED clientVars
    /\ UNCHANGED pacingVars
    /\ UNCHANGED checkVars

(***************************************************************************)
(* Batched writer: insertBatch / insertTestcasesBatch /                    *)
(* insertUserStoriesBatch.                                                 *)
(***************************************************************************)
\* .filter(item => !item.error)
hasNoError(r) == result[r].kind # "error"

\* a document built without its embeddingMetadata
toDocument_NoMetadata(r) ==
    [id |-> r, embedding |-> result[r].embedding, embeddingMetadata |-> NoObject]

\* .map(item => ({...item.testcase, embedding: item.embedding,
\*                createdAt, embeddingMetadata: item.metadata}))
toDocument(r) ==
    [id |-> r, embedding |-> result[r].embedding,
     embeddingMetadata |-> result[r].metadata]

documentsOf(batch) == SelectSeq(batch, hasNoError)

\* a resolved insert that counts the whole group as failed as well
insertReturnResolved_DoubleCount(batchLen, docLen, insertedCount) ==
    [inserted |-> insertedCount, failed |-> batchLen]

\* value returned when insertMany resolves
insertReturnResolved(batchLen, docLen, insertedCount) ==
    [inserted |-> insertedCount, failed |-> batchLen - docLen]

\* a catch block that forgets to count the group as failed
insertReturnThrown_Uncounted(batchLen) ==
    [inserted |-> 0, failed |-> 0]

\* value returned from the catch block when insertMany throws
insertReturnThrown(batchLen) ==
    [inserted |-> 0, failed |-> batchLen]

\* collection.insertMany(documents, {ordered: false}): the accepted documents
\* are written; it resolves when every document was accepted and throws a
\* bulk write error when the store rejected any of them (the accepted ones
\* stay written)
insertBatchReturn(batch, accepted) ==
    LET docs == documentsOf(batch) IN
    IF Len(batch) = 0 THEN [inserted |-> 0, failed |-> 0]
    ELSE IF Len(docs) = 0 THEN [inserted |-> 0, failed |-> Len(batch)]
    ELSE IF accepted = SeqToSet(docs)
         THEN insertReturnResolved(Len(batch), Len(docs), Cardinality(accepted))
         ELSE insertReturnThrown(Len(batch))

(***************************************************************************)
(* main(): the batch loop.                                                 *)
(***************************************************************************)
\* embedded: how many records of the group carried a successful embedding
NoInsert == [called |-> FALSE, group |-> <<>>, embedded |-> 0,
             inserted |-> 0, failed |-> 0]

\* top of the for loop with records left: batch.map(generate...) hands every
\* record of the batch to embeddingLimit, then awaits Promise.allSettled
StartBatch ==
    /\ mainPc = "loop"
    /\ i < testcases
    /\ queue' = batchOf(i)
    /\ workers' = [r \in Records |->
                      IF r \in SeqToSet(batchOf(i))
                      THEN [IdleWorker EXCEPT !.st = "queued"]
                      ELSE IdleWorker]
    /\ result' = [r \in Records |-> NoResult]
    /\ mainPc' = "embedding"
    /\ UNCHANGED <<program, testcases, i, successfulEmbeddings, store,
                   totalInserted, totalFailed, totalCost, totalTokens, processedCount, j,
                   insertedInBatch, failedInBatch, lastInsert>>
    /\ UNCHANGED importVars
    /\ UNCHANGED jobVars
    /\ UNCHANGED searchVars
    /\ UNCHANGED dedupVars
    /\ UNCHANGED clientVars
    /\ UNCHANGED pacingVars
    /\ UNCHANGED checkVars

\* batchCost += result.value.cost over the successful results of the batch
RECURSIVE batchCost(_)
batchCost(ok) ==
    IF ok = <<>> THEN 0 ELSE result[Head(ok)].cost + batchCost(Tail(ok))

\* batchTokens += result.value.tokens over the successful results of the batch
RECURSIVE batchTokens(_)
batchTokens(ok) ==
    IF ok = <<>> THEN 0 ELSE result[Head(ok)].tokens + batchTokens(Tail(ok))

\* a counter that is advanced by one item at a time
processedAfter_PerItem(count, batch) == count + 1

\* embeddingResults.forEach(... processedCount++ ...): one synchronous pass
\* over the settled results of the batch
processedAfter(count, batch) == count + Len(batch)

\* a main loop that goes on as soon as one task of the batch has settled
allSettled_Race(batch) ==
    \E r \in SeqToSet(batch) : workers[r].st = "done"

\* await Promise.allSettled(embeddingPromises): every task of the batch has
\* left the limiter's queue and returned
allSettled(batch) ==
    /\ queue = <<>>
    /\ \A r \in SeqToSet(batch) : workers[r].st = "done"

\* Promise.allSettled resolves: collect the successful results, count the
\* batch as processed; with nothing to insert the batch's totals are added
\* at once, otherwise the first sub-batch goes to the writer
AllSettled ==
    /\ mainPc = "embedding"
    /\ allSettled(batchOf(i))
    /\ LET batch == batchOf(i)
           ok == SelectSeq(batch, LAMBDA r : result[r].kind = "ok")
       IN /\ successfulEmbeddings' = ok
          /\ processedCount' = processedAfter(processedCount, batch)
          /\ j' = 0
          /\ insertedInBatch' = 0
          /\ failedInBatch' = 0
          /\ IF Len(ok) > 0
             THEN /\ mainPc' = "inserting"
                  /\ UNCHANGED <<totalInserted, totalFailed, totalCost, totalTokens, i>>
             ELSE /\ totalCost' = totalCost + batchCost(ok)
                  /\ totalTokens' = totalTokens + batchTokens(ok)
                  /\ totalInserted' = totalInserted + 0
                  /\ totalFailed' = totalFailed + 0 + (Len(batch) - Len(ok))
                  /\ IF i + BATCH_SIZE < testcases
                     THEN mainPc' = "delay" /\ i' = i
                     ELSE mainPc' = "loop" /\ i' = i + BATCH_SIZE
    /\ UNCHANGED <<program, testcases, workers, result, queue, store, lastInsert>>
    /\ UNCHANGED importVars
    /\ UNCHANGED jobVars
    /\ UNCHANGED searchVars
    /\ UNCHANGED dedupVars
    /\ UNCHANGED clientVars
    /\ UNCHANGED pacingVars
    /\ UNCHANGED checkVars

\* one insertBatch call of the sub-batch loop returns; after the last
\* sub-batch the batch's totals are added
InsertSubBatch ==
    /\ mainPc = "inserting"
    /\ LET subBatch == SubSeq(successfulEmbeddings, j + 1,
                              Min(j + MONGODB_BATCH_SIZE, Len(successfulEmbeddings)))
           batchLen == Len(batchOf(i))
       IN \E accepted \in SUBSET SeqToSet(documentsOf(subBatch)) :
            LET ret == insertBatchReturn(subBatch, accepted)
                ins == insertedInBatch + ret.inserted
                fail == failedInBatch + ret.failed
            IN /\ store' = store \cup {toDocument(r) : r \in accepted}
               /\ lastInsert' = [called |-> TRUE, group |-> subBatch,
                                 embedded |-> Cardinality({r \in SeqToSet(subBatch) :
                                                             result[r].kind = "ok"}),
                                 inserted |-> ret.inserted, failed |-> ret.failed]
               /\ insertedInBatch' = ins
               /\ failedInBatch' = fail
               /\ IF j + MONGODB_BATCH_SIZE < Len(successfulEmbeddings)
                  THEN /\ j' = j + MONGODB_BATCH_SIZE
                       /\ UNCHANGED <<mainPc, i, totalInserted, totalFailed, totalCost, totalTokens>>
                  ELSE /\ j' = j
                       /\ totalCost' = totalCost + batchCost(successfulEmbeddings)
                       /\ totalTokens' = totalTokens + batchTokens(successfulEmbeddings)
                       /\ totalInserted' = totalInserted + ins
                       /\ totalFailed' = totalFailed + fail
                                           + (batchLen - Len(successfulEmbeddings))
                       /\ IF i + BATCH_SIZE < testcases
                          THEN mainPc' = "delay" /\ i' = i
                          ELSE mainPc' = "loop" /\ i' = i + BATCH_SIZE
    /\ UNCHANGED <<program, testcases, workers, result, queue,
                   successfulEmbeddings, processedCount>>
    /\ UNCHANGED importVars
    /\ UNCHANGED jobVars
    /\ UNCHANGED searchVars
    /\ UNCHANGED dedupVars
    /\ UNCHANGED clientVars
    /\ UNCHANGED pacingVars
    /\ UNCHANGED checkVars

\* the inter-batch delay elapses: i += BATCH_SIZE
DelayElapsed ==
    /\ mainPc = "delay"
    /\ i' = i + BATCH_SIZE
    /\ mainPc' = "loop"
    /\ UNCHANGED <<program, testcases, workers, result, queue,
                   successfulEmbeddings, store, totalInserted, totalFailed, totalCost, totalTokens,
                   processedCount, j, insertedInBatch, failedInBatch, lastInsert>>
    /\ UNCHANGED importVars
    /\ UNCHANGED jobVars
    /\ UNCHANGED searchVars
    /\ UNCHANGED dedupVars
    /\ UNCHANGED clientVars
    /\ UNCHANGED pacingVars
    /\ UNCHANGED checkVars

\* the for loop ends (i >= testcases.length): the final statistics are printed
MainFinish ==
    /\ mainPc = "loop"
    /\ ~(i < testcases)
    /\ mainPc' = "done"
    /\ UNCHANGED <<program, testcases, i, workers, result, queue,
                   successfulEmbeddings, store, totalInserted, totalFailed, totalCost, totalTokens,
                   processedCount, j, insertedInBatch, failedInBatch, lastInsert>>
    /\ UNCHANGED importVars
    /\ UNCHANGED jobVars
    /\ UNCHANGED searchVars
    /\ UNCHANGED dedupVars
    /\ UNCHANGED clientVars
    /\ UNCHANGED pacingVars
    /\ UNCHANGED checkVars

(***************************************************************************)
(* download-batch-results.js: downloadAndImport().                         *)
(***************************************************************************)
BatchStatuses == {"validating", "in_progress", "failed", "completed"}

\* one line of the output file: the response's status code, the id of the
\* request (a test case id; ids above testcases are not in testcases.json)
\* and the token usage
ResultLines == [status_code : {200, 400}, custom_id : 1..(MaxRecords + 1),
                tokens : {1}]

RECURSIVE SeqsUpTo(_, _)
SeqsUpTo(S, n) ==
    IF n = 0 THEN {<<>>}
    ELSE SeqsUpTo(S, n - 1) \cup
         {Append(q, x) : q \in {t \in SeqsUpTo(S, n - 1) : Len(t) = n - 1}, x \in S}

\* testcaseMap.get(result.custom_id) is defined
knownTestcase(custom_id) == custom_id <= testcases

\* documents.push({...testcase, embedding, createdAt, embeddingMetadata: {...}})
importDocument(line) ==
    [id |-> line.custom_id, embedding |-> "vector",
     embeddingMetadata |-> <<[cost |-> line.tokens, tokens |-> line.tokens,
                              apiSource |-> "openai-batch"]>>]

\* an import loop that does not look at the status code
importsLine_AnyStatus(line) == knownTestcase(line.custom_id)

\* does the import loop push a document for this line?
importsLine(line) == line.status_code = 200 /\ knownTestcase(line.custom_id)

\* the for loop over the parsed results
RECURSIVE importLoop(_)
importLoop(lines) ==
    IF lines = <<>> THEN <<>>
    ELSE IF importsLine(Head(lines))
         THEN <<importDocument(Head(lines))>> \o importLoop(Tail(lines))
         ELSE importLoop(Tail(lines))

\* the status gate: anything but 'completed' ends the process
batchIsComplete(status) == status = "completed"

\* openai.batches.retrieve answers
RetrieveBatch(status) ==
    /\ program = "download-batch-results"
    /\ mainPc = "retrieve"
    /\ batchStatus' = status
    /\ mainPc' = IF batchIsComplete(status) THEN "download" ELSE "exited"
    /\ UNCHANGED <<program, testcases, i, workers, result, queue,
                   successfulEmbeddings, store, totalInserted, totalFailed, totalCost, totalTokens,
                   processedCount, j, insertedInBatch, failedInBatch, lastInsert,
                   importResults, documents>>
    /\ UNCHANGED jobVars
    /\ UNCHANGED searchVars
    /\ UNCHANGED dedupVars
    /\ UNCHANGED clientVars
    /\ UNCHANGED pacingVars
    /\ UNCHANGED checkVars

\* the output file is downloaded and parsed, the documents are built; with
\* at least one document insertMany is called
DownloadResults ==
    /\ mainPc = "download"
    /\ \E lines \in SeqsUpTo(ResultLines, MaxLines) :
          /\ importResults' = lines
          /\ documents' = importLoop(lines)
          /\ mainPc' = IF Len(importLoop(lines)) > 0 THEN "importing" ELSE "done"
    /\ UNCHANGED <<program, testcases, i, workers, result, queue,
                   successfulEmbeddings, store, totalInserted, totalFailed, totalCost, totalTokens,
                   processedCount, j, insertedInBatch, failedInBatch, lastInsert,
                   batchStatus>>
    /\ UNCHANGED jobVars
    /\ UNCHANGED searchVars
    /\ UNCHANGED dedupVars
    /\ UNCHANGED clientVars
    /\ UNCHANGED pacingVars
    /\ UNCHANGED checkVars

\* collection.insertMany(documents, {ordered: false}) returns or throws (the
\* catch block only logs); the accepted documents are written
ImportInsertMany ==
    /\ mainPc = "importing"
    /\ \E accepted \in SUBSET SeqToSet(documents) :
          store' = store \cup accepted
    /\ mainPc' = "done"
    /\ UNCHANGED <<program, testcases, i, workers, result, queue,
                   successfulEmbeddings, totalInserted, totalFailed, totalCost, totalTokens,
                   processedCount, j, insertedInBatch, failedInBatch, lastInsert,
                   batchStatus, importResults, documents>>
    /\ UNCHANGED jobVars
    /\ UNCHANGED searchVars
    /\ UNCHANGED dedupVars
    /\ UNCHANGED clientVars
    /\ UNCHANGED pacingVars
    /\ UNCHANGED checkVars

(***************************************************************************)
(* Job tracker (server): createJob / updateJob / getJob, the cleanup       *)
(* interval, POST /api/create-embeddings and processEmbeddings.            *)
(***************************************************************************)
\* two requests may be in progress at the same time
JobIds == {1, 2}

\* const jobs = new Map(): a function whose domain is the set of ids present
EmptyMap == [id \in {} |-> 0]
mapSet(reg, jobId, job) ==
    [id \in DOMAIN reg \cup {jobId} |-> IF id = jobId THEN job ELSE reg[id]]

\* the files of a request: file numbers 1..n
filesOf(n) == [k \in 1..n |-> k]

createJob(files, t) ==
    [files |-> files, status |-> "in-progress", progress |-> 0,
     total |-> Len(files), results |-> <<>>, startTime |-> t,
     currentFile |-> 0, endTime |-> 0 - 1]

\* an update that is applied to every job of the registry
updateJob_Broadcast(reg, jobId, updates) ==
    [id \in DOMAIN reg |->
        [f \in DOMAIN reg[id] |->
            IF f \in DOMAIN updates THEN updates[f] ELSE reg[id][f]]]

\* Object.assign(job, updates) when the id is in the map, nothing otherwise
updateJob(reg, jobId, updates) ==
    IF jobId \in DOMAIN reg
    THEN mapSet(reg, jobId,
                [f \in DOMAIN reg[jobId] |->
                    IF f \in DOMAIN updates THEN updates[f] ELSE reg[jobId][f]])
    ELSE reg

\* jobs.get(jobId); GET /api/jobs/:jobId answers 404 when it is undefined
getJob(jobId) == IF jobId \in DOMAIN jobs THEN jobs[jobId] ELSE Undefined

\* a sweep that already deletes a job that is exactly one hour old
olderThanOneHour_Inclusive(job, t) == job.startTime <= t - RETENTION

\* new Date(job.startTime).getTime() < Date.now() - 60 * 60 * 1000
olderThanOneHour(job, t) == job.startTime < t - RETENTION

\* codes, createdAt and reachedCompleted record the run's history: the exit
\* codes seen, the time of createJob, and whether the final update found the
\* job in the registry and left it completed
IdlePipe == [pc |-> "idle", files |-> <<>>, idx |-> 0, results |-> <<>>,
             codes |-> <<>>, createdAt |-> 0, reachedCompleted |-> FALSE,
             tempScriptPath |-> <<>>]

\* path.join(__dirname, `temp-embeddings-${Date.now()}.js`)
tempScriptPath(t) == <<"temp-embeddings-", t, ".js">>

\* the generated script differs from file to file in the file's path and name
scriptContent(fileName) == fileName

\* fs.writeFileSync(path, content): creates or overwrites
writeFileSync(files, path, content) == mapSet(files, path, content)

\* fs.unlinkSync(path) of a file that exists
unlinkSync(files, path) == [f \in DOMAIN files \ {path} |-> files[f]]

\* an exception nobody catches (thrown inside the child's 'close' listener)
\* ends the server process
serverDown == \E id \in JobIds : pipe[id].pc = "uncaught"

\* a close handler that records every file as completed
resultEntry_AlwaysCompleted(file, code) ==
    [file |-> file, status |-> "completed"]

\* results.push({file, status: code === 0 ? 'completed' : 'failed', ...})
resultEntry(file, code) ==
    [file |-> file, status |-> IF code = 0 THEN "completed" ELSE "failed"]

\* POST /api/create-embeddings with a non-empty file list and a valid
\* database/collection: createJob, then processEmbeddings runs up to its
\* first await (currentFile set, temp script written, child spawned)
CreateEmbeddings(id, n) ==
    /\ ~serverDown
    /\ pipe[id].pc = "idle"
    /\ \A other \in JobIds : other < id => pipe[other].pc # "idle"
    /\ n > 0
    /\ LET files == filesOf(n)
           reg1 == mapSet(jobs, id, createJob(files, now))
       IN /\ jobs' = updateJob(reg1, id, [currentFile |-> files[1]])
          /\ pipe' = [pipe EXCEPT ![id] =
                         [pc |-> "spawned", files |-> files, idx |-> 1,
                          results |-> <<>>, codes |-> <<>>, createdAt |-> now,
                          reachedCompleted |-> FALSE,
                          tempScriptPath |-> tempScriptPath(now)]]
          /\ disk' = writeFileSync(disk, tempScriptPath(now),
                                   scriptContent(files[1]))
    /\ UNCHANGED <<now, nextSweep>>
    /\ UNCHANGED ingestVars
    /\ UNCHANGED importVars
    /\ UNCHANGED searchVars
    /\ UNCHANGED dedupVars
    /\ UNCHANGED clientVars
    /\ UNCHANGED pacingVars
    /\ UNCHANGED checkVars

\* the child of the current file closes with the given exit code: the temp
\* script is unlinked (unlinkSync throws when it is gone), one results entry
\* is pushed, progress is reported, and the loop either writes the next
\* file's script and spawns its child or marks the job completed
ChildClose(id, code) ==
    /\ ~serverDown
    /\ pipe[id].pc = "spawned"
    /\ IF pipe[id].tempScriptPath \notin DOMAIN disk
       THEN /\ pipe' = [pipe EXCEPT ![id].pc = "uncaught"]
            /\ UNCHANGED <<jobs, disk>>
       ELSE
       LET p == pipe[id]
           disk1 == unlinkSync(disk, p.tempScriptPath)
           results2 == Append(p.results, resultEntry(p.files[p.idx], code))
           reg1 == updateJob(jobs, id, [progress |-> Len(results2),
                                        results |-> results2])
       IN IF p.idx < Len(p.files)
          THEN /\ jobs' = updateJob(reg1, id, [currentFile |-> p.files[p.idx + 1]])
               /\ pipe' = [pipe EXCEPT ![id].idx = p.idx + 1,
                                       ![id].results = results2,
                                       ![id].codes = Append(p.codes, code),
                                       ![id].tempScriptPath =
                                           tempScriptPath(now)]
               /\ disk' = writeFileSync(disk1, tempScriptPath(now),
                                        scriptContent(p.files[p.idx + 1]))
          ELSE LET reg2 == updateJob(reg1, id, [status |-> "completed",
                                                endTime |-> now,
                                                results |-> results2])
               IN /\ jobs' = reg2
                  /\ disk' = disk1
                  /\ pipe' = [pipe EXCEPT ![id].pc = "done",
                                          ![id].tempScriptPath = <<>>,
                                          ![id].results = results2,
                                          ![id].codes = Append(p.codes, code),
                                          ![id].reachedCompleted =
                                              /\ id \in DOMAIN reg2
                                              /\ reg2[id].status = "completed"
                                              /\ reg2[id].progress = reg2[id].total
                                              /\ Len(reg2[id].results) = reg2[id].total
                                              /\ reg2[id].endTime >= 0]
    /\ UNCHANGED <<now, nextSweep>>
    /\ UNCHANGED ingestVars
    /\ UNCHANGED importVars
    /\ UNCHANGED searchVars
    /\ UNCHANGED dedupVars
    /\ UNCHANGED clientVars
    /\ UNCHANGED pacingVars
    /\ UNCHANGED checkVars

\* the setInterval callback: delete every job whose start time is more than
\* one hour old
Sweep ==
    /\ ~serverDown
    /\ now >= nextSweep
    /\ jobs' = [id \in {k \in DOMAIN jobs : ~olderThanOneHour(jobs[k], now)} |->
                  jobs[id]]
    /\ nextSweep' = nextSweep + SWEEP_INTERVAL
    /\ UNCHANGED <<now, pipe, disk>>
    /\ UNCHANGED ingestVars
    /\ UNCHANGED importVars
    /\ UNCHANGED searchVars
    /\ UNCHANGED dedupVars
    /\ UNCHANGED clientVars
    /\ UNCHANGED pacingVars
    /\ UNCHANGED checkVars

\* time passes (a due sweep runs before more time passes)
Tick ==
    /\ ~serverDown
    /\ now < nextSweep
    /\ now + TickStep <= MaxTime
    /\ now' = now + TickStep
    /\ UNCHANGED <<nextSweep, jobs, pipe, disk>>
    /\ UNCHANGED ingestVars
    /\ UNCHANGED importVars
    /\ UNCHANGED searchVars
    /\ UNCHANGED dedupVars
    /\ UNCHANGED clientVars
    /\ UNCHANGED pacingVars
    /\ UNCHANGED checkVars

(***************************************************************************)
(* Search endpoints (server): score normalization, fusion and ordering of  *)
(* POST /api/search/hybrid and POST /api/search/rerank.  Raw scores are    *)
(* counted in halves (One is the score 1.0), weights in tenths; computed   *)
(* scores are exact fractions [n, d] with d > 0.                           *)
(***************************************************************************)
MaxDocs == 3
DocIds == 1..MaxDocs

\* the literal 1 of Math.max(...scores, 1), in halves
One == 2

\* the weight 1.0, in tenths
FullWeight == 10

\* scores the store reports: $search scores are positive and unbounded,
\* $vectorSearch scores lie in (0, 1]
BM25Scores == {1, 2, 3}
VectorScores == {1, 2}

Frac(n, d) == [n |-> n, d |-> d]
Zero == Frac(0, 1)
fracAdd(a, b) == Frac(a.n * b.d + b.n * a.d, a.d * b.d)
fracScale(a, w) == Frac(a.n * w, a.d)
fracLess(a, b) == a.n * b.d < b.n * a.d
fracEq(a, b) == a.n * b.d = b.n * a.d

SetMax(S) == CHOOSE x \in S : \A y \in S : y <= x
SetMin(S) == CHOOSE x \in S : \A y \in S : x <= y

scoresOf(list) == {list[k].score : k \in 1..Len(list)}
idsOf(list) == [k \in 1..Len(list) |-> list[k].id]

\* a normalizer that takes every score to be at most 1
maxScoreOf_Unit(list) == One

\* Math.max(...scores, 1)
maxScoreOf(list) == SetMax(scoresOf(list) \cup {One})

\* Math.min(...scores, 0)
minScoreOf(list) == SetMin(scoresOf(list) \cup {0})

\* rerank: normalizeBM25 and normalizeVector
normalizeBM25(score, minScore, maxScore) ==
    IF maxScore = minScore THEN Frac(1, 1)
    ELSE Frac(score - minScore, maxScore - minScore)

normalizeVector(score, minScore, maxScore) ==
    IF maxScore = minScore THEN Frac(1, 1)
    ELSE Frac(score - minScore, maxScore - minScore)

\* hybrid: bm25Range / vectorRange = max - min || 1, and
\* (score - min) / range
rangeOf(list) ==
    IF maxScoreOf(list) - minScoreOf(list) = 0 THEN One
    ELSE maxScoreOf(list) - minScoreOf(list)

hybridNormalize(score, list) == Frac(score - minScoreOf(list), rangeOf(list))

\* index + 1 of the document in a result list, 0 (null / undefined) when it
\* is not in the list
rankIn(list, id) ==
    IF \E k \in 1..Len(list) : list[k].id = id
    THEN CHOOSE k \in 1..Len(list) : list[k].id = id
    ELSE 0

\* a map that sets a new entry for every vector result, merged or not
mapKeys_NoMerge(bm25, vector) == idsOf(bm25) \o idsOf(vector)

\* keys of resultMap in insertion order: the BM25 results, then the vector
\* results that were not already in the map
mapKeys(bm25, vector) ==
    idsOf(bm25) \o SelectSeq(idsOf(vector), LAMBDA id : rankIn(bm25, id) = 0)

\* rerank: the entry of resultMap for one document
rerankEntry(id, bm25, vector) ==
    LET br == rankIn(bm25, id)
        vr == rankIn(vector, id)
    IN [id |-> id,
        bm25Score |-> IF br # 0 THEN bm25[br].score ELSE 0,
        bm25Normalized |->
            IF br # 0
            THEN normalizeBM25(bm25[br].score, minScoreOf(bm25), maxScoreOf(bm25))
            ELSE Zero,
        bm25Rank |-> br,
        vectorScore |-> IF vr # 0 THEN vector[vr].score ELSE 0,
        vectorNormalized |->
            IF vr # 0
            THEN normalizeVector(vector[vr].score, minScoreOf(vector), maxScoreOf(vector))
            ELSE Zero,
        vectorRank |-> vr,
        foundIn |-> IF br # 0 /\ vr # 0 THEN "both"
                    ELSE IF br # 0 THEN "bm25" ELSE "vector"]

\* const k = 60, the RRF constant
rrfK == 60

\* a term that forgets the reciprocal
rrfTerm_NoReciprocal(rank) == IF rank # 0 THEN Frac(rrfK + rank, 1) ELSE Zero

\* doc.bm25Rank ? 1 / (k + doc.bm25Rank) : 0
rrfTerm(rank) == IF rank # 0 THEN Frac(1, rrfK + rank) ELSE Zero

\* a weighted sum that leaves the vector weight out
weightedScore_UnweightedVector(bn, vn, bm25Weight, vectorWeight) ==
    fracAdd(fracScale(bn, bm25Weight), fracScale(vn, FullWeight))

\* (doc.bm25Normalized * bm25Weight) + (doc.vectorNormalized * vectorWeight)
weightedScore(bn, vn, bm25Weight, vectorWeight) ==
    fracAdd(fracScale(bn, bm25Weight), fracScale(vn, vectorWeight))

\* doc.bm25Rank ? (1 / doc.bm25Rank) * bm25Weight : 0
reciprocalTerm(rank, weight) == IF rank # 0 THEN Frac(weight, rank) ELSE Zero

\* rerank: the fusedScore of one entry under the request's fusion method
fusedScoreOf(doc, fusionMethod, bm25Weight, vectorWeight) ==
    IF fusionMethod = "rrf"
    THEN fracAdd(rrfTerm(doc.bm25Rank), rrfTerm(doc.vectorRank))
    ELSE IF fusionMethod = "weighted"
    THEN weightedScore(doc.bm25Normalized, doc.vectorNormalized,
                       bm25Weight, vectorWeight)
    ELSE fracAdd(reciprocalTerm(doc.bm25Rank, bm25Weight),
                 reciprocalTerm(doc.vectorRank, vectorWeight))

\* a comparator that sorts ascending (a - b)
comesBefore_Ascending(a, b) == fracLess(a, b)

\* the comparator (a, b) => b.fusedScore - a.fusedScore is negative:
\* a is placed before b
comesBefore(a, b) == fracLess(b, a)

\* Array.prototype.sort is stable: an element moves in front of another only
\* when the comparator says so.  The result is the sequence of the indexes
\* of scores in sorted order.
RECURSIVE insertStable(_, _, _)
insertStable(order, x, scores) ==
    IF order = <<>> THEN <<x>>
    ELSE IF comesBefore(scores[x], scores[Head(order)]) THEN <<x>> \o order
    ELSE <<Head(order)>> \o insertStable(Tail(order), x, scores)

RECURSIVE sortUpTo(_, _)
sortUpTo(scores, n) ==
    IF n = 0 THEN <<>>
    ELSE insertStable(sortUpTo(scores, n - 1), n, scores)

sortOrder(scores) == sortUpTo(scores, Len(scores))

\* Array.from(resultMap.values()) / array.map(...): the array of the n
\* values, each computed once
arrayOf(values, n) == SubSeq(values, 1, n)

\* array.slice(0, limit)
sliceTo(list, limit) == SubSeq(list, 1, Min(limit, Len(list)))

\* rerank: fusedResults after the sort, with newRank = index + 1
fusedResultsOf(bm25, vector, fusionMethod, bm25Weight, vectorWeight) ==
    LET keys == mapKeys(bm25, vector)
        allResults == arrayOf([k \in 1..Len(keys) |->
                                  rerankEntry(keys[k], bm25, vector)], Len(keys))
        scores == arrayOf([k \in 1..Len(keys) |->
                              fusedScoreOf(allResults[k], fusionMethod,
                                           bm25Weight, vectorWeight)], Len(keys))
        order == sortOrder(scores)
    IN [p \in 1..Len(keys) |->
           [fusedScore |-> scores[order[p]], newRank |-> p]
               @@ allResults[order[p]]]

\* hybrid: the entry of resultMap for one document, hybridScore included
hybridEntry(id, bm25, vector, skipBM25, bm25Weight, vectorWeight) ==
    LET br == rankIn(bm25, id)
        vr == rankIn(vector, id)
        bn == IF br # 0 THEN hybridNormalize(bm25[br].score, bm25) ELSE Zero
        vn == IF vr # 0 THEN hybridNormalize(vector[vr].score, vector) ELSE Zero
    IN [id |-> id,
        bm25Score |-> IF br # 0 THEN bm25[br].score ELSE 0,
        bm25ScoreNormalized |-> bn,
        vectorScore |-> IF vr # 0 THEN vector[vr].score ELSE 0,
        vectorScoreNormalized |-> vn,
        hybridScore |->
            IF br # 0
            THEN IF vr # 0
                 THEN fracAdd(fracScale(bn, bm25Weight), fracScale(vn, vectorWeight))
                 ELSE fracScale(bn, bm25Weight)
            ELSE IF skipBM25 THEN fracScale(vn, FullWeight)
                 ELSE fracScale(vn, vectorWeight),
        foundIn |-> IF br # 0 /\ vr # 0 THEN "both"
                    ELSE IF br # 0 THEN "bm25"
                    ELSE IF skipBM25 THEN "vector-only" ELSE "vector"]

\* hybrid: combinedResults after the sort (no filters in the request)
combinedResultsOf(bm25, vector, skipBM25, bm25Weight, vectorWeight) ==
    LET keys == mapKeys(bm25, vector)
        entries == arrayOf([k \in 1..Len(keys) |->
                               hybridEntry(keys[k], bm25, vector, skipBM25,
                                           bm25Weight, vectorWeight)], Len(keys))
        order == sortOrder(arrayOf([k \in 1..Len(keys) |-> entries[k].hybridScore],
                                   Len(keys)))
    IN [p \in 1..Len(keys) |-> entries[order[p]]]

(***************************************************************************)
(* Search endpoints (server): the request handlers.                        *)
(***************************************************************************)
Endpoints == {"vector", "bm25", "hybrid", "rerank"}
FusionMethods == {"rrf", "weighted", "reciprocal"}

\* bm25Weight and vectorWeight of a request, in tenths (0.4 / 0.6 are the
\* defaults of rerank)
WeightPairs == {<<4, 6>>, <<7, 3>>}
Limits == {2, 10}

\* the module field of the stored documents
moduleOf(id) == IF id % 2 = 1 THEN "Login" ELSE "Cart"

\* result[key] of a stored document; module is the field the filters name
fieldOf(id, key) == moduleOf(id)

\* filters = {} and filters = {module: value}
NoFilters == [key \in {} |-> ""]
filtersOn(value) == [key \in {"module"} |-> value]
FilterChoices == {filtersOn("Login"), filtersOn("")}

\* /api/search and /api/search/bm25: matchConditions holds the filters
\* whose value is not empty
matchConditions(filters) ==
    [key \in {f \in DOMAIN filters : filters[f] # ""} |-> filters[key]]

\* {$match: conditions} behind the search stage of a pipeline
matchStage(list, conditions) ==
    SelectSeq(list, LAMBDA d :
        \A key \in DOMAIN conditions : fieldOf(d.id, key) = conditions[key])

\* hybrid: combinedResults.filter(...), an empty value passes every result
postFilter(list, filters) ==
    SelectSeq(list, LAMBDA d :
        \A key \in DOMAIN filters :
            filters[key] = "" \/ fieldOf(d.id, key) = filters[key])

\* Object.keys(filters).length > 0
hasKeys(filters) == DOMAIN filters # {}

\* hybrid: combinedResults after the sort and the filter
finalResultsOf(bm25, vector, skipBM25, bm25Weight, vectorWeight, filters) ==
    IF hasKeys(filters)
    THEN postFilter(combinedResultsOf(bm25, vector, skipBM25,
                                      bm25Weight, vectorWeight), filters)
    ELSE combinedResultsOf(bm25, vector, skipBM25, bm25Weight, vectorWeight)

Request(endpoint, useUserStories, fusionMethod, weights, limit, filters) ==
    [endpoint |-> endpoint, useUserStories |-> useUserStories,
     fusionMethod |-> fusionMethod, bm25Weight |-> weights[1],
     vectorWeight |-> weights[2], limit |-> limit, filters |-> filters]

\* the request bodies: /api/search and /api/search/bm25 always use the test
\* case collection; the weights do not enter an rrf fusion.  Each endpoint
\* is called for both collections, with other weights, with a small limit
\* and with filters.
Requests ==
    {Request(e, FALSE, "rrf", <<4, 6>>, l, NoFilters) :
         e \in {"vector", "bm25"}, l \in Limits}
    \cup {Request("hybrid", u, "weighted", <<4, 6>>, 10, NoFilters) : u \in BOOLEAN}
    \cup {Request("hybrid", FALSE, "weighted", w, l, NoFilters) :
              w \in WeightPairs, l \in Limits}
    \cup {Request("rerank", u, m, <<4, 6>>, 10, NoFilters) :
              u \in BOOLEAN, m \in FusionMethods}
    \cup {Request("rerank", FALSE, "rrf", <<4, 6>>, l, NoFilters) : l \in Limits}
    \cup {Request("rerank", FALSE, m, w, l, NoFilters) :
              m \in {"weighted", "reciprocal"}, w \in WeightPairs, l \in Limits}
    \cup {Request(e, FALSE, "rrf", <<4, 6>>, 10, f) :
              e \in {"vector", "bm25", "rerank"}, f \in FilterChoices}
    \cup {Request("hybrid", u, "weighted", <<4, 6>>, 10, f) :
              u \in BOOLEAN, f \in FilterChoices}

\* what the request finds: the target collection exists and has documents,
\* its two search indexes exist.  The other three fields note what the
\* handler met on its way: the store answered (reachable), listSearchIndexes
\* was permitted (listable), the embedding provider answered (embedOk).
Envs ==
    {e \in [reachable : {TRUE}, embedOk : {TRUE}, exists : BOOLEAN,
            hasDocs : BOOLEAN, bm25Index : BOOLEAN, vectorIndex : BOOLEAN,
            listable : {TRUE}] :
        ~e.exists => (~e.hasDocs /\ ~e.bm25Index /\ ~e.vectorIndex)}

\* outcomes of mongoClient.connect() and of listSearchIndexes()
ConnectOutcomes == {[reachable |-> FALSE, listable |-> TRUE],
                    [reachable |-> TRUE, listable |-> FALSE],
                    [reachable |-> TRUE, listable |-> TRUE]}

\* result lists the store may return: distinct documents, best score first.
\* Documents are numbered by their BM25 rank.
nonIncreasing(list) ==
    \A k \in 1..(Len(list) - 1) : list[k].score >= list[k + 1].score

distinctIds(list) ==
    \A k1, k2 \in 1..Len(list) : list[k1].id = list[k2].id => k1 = k2

BM25Lists ==
    UNION {{list \in [1..n -> [id : DocIds, score : BM25Scores]] :
               /\ \A k \in 1..n : list[k].id = k
               /\ nonIncreasing(list)} : n \in 0..MaxDocs}

VectorLists ==
    UNION {{list \in [1..n -> [id : DocIds, score : VectorScores]] :
               distinctIds(list) /\ nonIncreasing(list)} : n \in 0..MaxDocs}

\* validateDbCollectionIndex(client, db, collection, indexName, true)
validateDbCollectionIndex(e, indexFound) ==
    IF ~e.exists THEN [ok |-> FALSE, error |-> "collection-not-found"]
    ELSE IF ~e.hasDocs THEN [ok |-> FALSE, error |-> "no-documents"]
    ELSE IF ~e.listable THEN [ok |-> FALSE, error |-> "index-not-verified"]
    ELSE IF ~indexFound THEN [ok |-> FALSE, error |-> "index-not-found"]
    ELSE [ok |-> TRUE, error |-> "none"]

\* a hybrid endpoint that never falls back to vector-only search
skipBM25_Never(request, e) == FALSE

\* const skipBM25 = useUserStories && !bm25Validation.ok
skipBM25(request, e) ==
    request.useUserStories /\ ~validateDbCollectionIndex(e, e.bm25Index).ok

NoResponse == [status |-> 0, success |-> FALSE, searchType |-> "none",
               results |-> <<>>, bm25Skipped |-> FALSE, error |-> "none",
               count |-> 0, stats |-> NoObject]

\* res.status(code).json({error})
errorResponse(code, error) ==
    [status |-> code, success |-> FALSE, searchType |-> "none",
     results |-> <<>>, bm25Skipped |-> FALSE, error |-> error,
     count |-> 0, stats |-> NoObject]

\* res.json({success: true, searchType, results, bm25Skipped, ...})
okResponse(searchType, results, skipped) ==
    [status |-> 200, success |-> TRUE, searchType |-> searchType,
     results |-> results, bm25Skipped |-> skipped, error |-> "none",
     count |-> Len(results), stats |-> NoObject]

\* stats of the hybrid response: finalResults.filter(r => r.foundIn === tag)
\* .length for the tags 'both', 'bm25' and 'vector', and the two list lengths
hybridStats(finalResults, bm25, vector) ==
    LET tagged(tag) == Cardinality({k \in 1..Len(finalResults) :
                                       finalResults[k].foundIn = tag})
    IN [foundInBoth |-> tagged("both"),
        foundInBm25Only |-> tagged("bm25"),
        foundInVectorOnly |-> tagged("vector"),
        bm25ResultCount |-> Len(bm25),
        vectorResultCount |-> Len(vector)]

\* /api/search, /api/search/bm25, /api/search/hybrid up to the end of the
\* validation: connect, validateDbCollectionIndex, 400 when it fails
ValidateRequest ==
    /\ searchPc = "received"
    /\ req.endpoint \in {"vector", "bm25", "hybrid"}
    /\ \E met \in ConnectOutcomes :
          env' = [env EXCEPT !.reachable = met.reachable, !.listable = met.listable]
    /\ LET bm25Validation == validateDbCollectionIndex(env', env.bm25Index)
           vectorValidation == validateDbCollectionIndex(env', env.vectorIndex)
           failure ==
               IF ~env'.reachable THEN errorResponse(500, "connection")
               ELSE IF req.endpoint = "vector"
               THEN IF vectorValidation.ok THEN NoResponse
                    ELSE errorResponse(400, vectorValidation.error)
               ELSE IF req.endpoint = "bm25"
               THEN IF bm25Validation.ok THEN NoResponse
                    ELSE errorResponse(400, bm25Validation.error)
               ELSE IF ~skipBM25(req, env') /\ ~bm25Validation.ok
               THEN errorResponse(400, bm25Validation.error)
               ELSE IF ~vectorValidation.ok
               THEN errorResponse(400, vectorValidation.error)
               ELSE NoResponse
       IN /\ response' = failure
          /\ searchPc' = IF failure = NoResponse THEN "validated" ELSE "responded"
    /\ UNCHANGED <<req, issued, bm25Results, vectorResults, indexFilters>>
    /\ UNCHANGED <<ingestVars, importVars, jobVars, dedupVars, clientVars, pacingVars, checkVars>>

\* /api/search after the validation: the query is embedded, the vector
\* search is run
VectorSearch ==
    /\ searchPc = "validated"
    /\ req.endpoint = "vector"
    /\ \E embedOk \in BOOLEAN : env' = [env EXCEPT !.embedOk = embedOk]
    /\ IF ~env'.embedOk
       THEN /\ response' = errorResponse(500, "embedding")
            /\ UNCHANGED <<issued, vectorResults>>
       ELSE \E list \in VectorLists :
               LET results ==
                       sliceTo(IF hasKeys(req.filters)
                               THEN matchStage(list, matchConditions(req.filters))
                               ELSE list,
                               req.limit)
               IN /\ issued' = issued \cup {"vector"}
                  /\ vectorResults' = results
                  /\ response' = okResponse("vector", results, FALSE)
    /\ searchPc' = "responded"
    /\ UNCHANGED <<req, bm25Results, indexFilters>>
    /\ UNCHANGED <<ingestVars, importVars, jobVars, dedupVars, clientVars, pacingVars, checkVars>>

\* /api/search/bm25 after the validation
BM25Search ==
    /\ searchPc = "validated"
    /\ req.endpoint = "bm25"
    /\ \E list \in BM25Lists :
          LET results ==
                  sliceTo(IF hasKeys(matchConditions(req.filters))
                          THEN matchStage(list, matchConditions(req.filters))
                          ELSE list,
                          req.limit)
          IN /\ issued' = issued \cup {"bm25"}
             /\ bm25Results' = results
             /\ response' = okResponse("bm25", results, FALSE)
    /\ searchPc' = "responded"
    /\ UNCHANGED <<req, env, vectorResults, indexFilters>>
    /\ UNCHANGED <<ingestVars, importVars, jobVars, dedupVars, clientVars, pacingVars, checkVars>>

\* /api/search/hybrid after the validation: the BM25 search unless skipped,
\* the embedding of the query, the vector search, then normalization,
\* combination, sort and slice
HybridSearch ==
    /\ searchPc = "validated"
    /\ req.endpoint = "hybrid"
    /\ \E embedOk \in BOOLEAN : env' = [env EXCEPT !.embedOk = embedOk]
    /\ LET skip == skipBM25(req, env) IN
       \E bm25 \in IF skip THEN {<<>>} ELSE BM25Lists :
          /\ bm25Results' = bm25
          /\ IF ~env'.embedOk
             THEN /\ issued' = IF skip THEN issued ELSE issued \cup {"bm25"}
                  /\ response' = errorResponse(500, "embedding")
                  /\ UNCHANGED vectorResults
             ELSE \E vector \in VectorLists :
                     /\ issued' = IF skip THEN issued \cup {"vector"}
                                  ELSE issued \cup {"bm25", "vector"}
                     /\ vectorResults' = vector
                     /\ LET finalResults ==
                                sliceTo(finalResultsOf(bm25, vector, skip,
                                            req.bm25Weight, req.vectorWeight,
                                            req.filters),
                                        req.limit)
                        IN response' =
                              [okResponse(IF skip THEN "vector-only" ELSE "hybrid",
                                          finalResults, skip)
                               EXCEPT !.stats = <<hybridStats(finalResults, bm25,
                                                              vector)>>]
    /\ searchPc' = "responded"
    /\ UNCHANGED <<req, indexFilters>>
    /\ UNCHANGED <<ingestVars, importVars, jobVars, dedupVars, clientVars, pacingVars, checkVars>>

\* rerank, the catch block when MongoDB is down: the first stories of the
\* local JSON file with made-up scores 0.95, 0.92, ...
fallbackResults(stories, limit) ==
    [k \in 1..Min(stories, limit) |->
        [id |-> k, foundIn |-> "fallback",
         fusedScore |-> Frac(95 - 3 * (k - 1), 100)]]

\* /api/search/rerank up to mongoClient.connect(): there is no validation;
\* when connect throws, the catch block answers from the local stories file
\* if the message names SSL or MongoServerSelectionError (an unreadable file
\* gives the empty fallback), and with 500 otherwise
RerankConnect ==
    /\ searchPc = "received"
    /\ req.endpoint = "rerank"
    /\ \E reachable \in BOOLEAN : env' = [env EXCEPT !.reachable = reachable]
    /\ IF env'.reachable
       THEN /\ searchPc' = "validated"
            /\ UNCHANGED response
       ELSE /\ searchPc' = "responded"
            /\ \E named \in BOOLEAN : \E readable \in BOOLEAN :
               \E stories \in 0..MaxDocs :
                  response' =
                     IF ~named THEN errorResponse(500, "rerank-failed")
                     ELSE IF readable
                     THEN okResponse("rerank-fallback",
                                     fallbackResults(stories, req.limit), FALSE)
                     ELSE okResponse("empty-rerank-fallback", <<>>, FALSE)
    /\ UNCHANGED <<req, issued, bm25Results, vectorResults, indexFilters>>
    /\ UNCHANGED <<ingestVars, importVars, jobVars, dedupVars, clientVars, pacingVars, checkVars>>

\* what collection.aggregate(pipeline).toArray() does for a $search or
\* $vectorSearch stage: without the collection or without documents there is
\* nothing to return; without the index the store returns nothing or throws
\* an error that names the index
aggregateAnswers(e, indexFound, lists) ==
    IF ~(e.exists /\ e.hasDocs) THEN {[threw |-> FALSE, list |-> <<>>]}
    ELSE IF ~indexFound
    THEN {[threw |-> FALSE, list |-> <<>>], [threw |-> TRUE, list |-> <<>>]}
    ELSE {[threw |-> FALSE, list |-> l] : l \in lists}

\* rerank: bm25Pipeline, the $search stage and {$match: filters} behind it
\* when the request has filters
bm25PipelineAnswers(e, filters) ==
    {[threw |-> a.threw,
      list |-> IF hasKeys(filters) THEN matchStage(a.list, filters) ELSE a.list] :
         a \in aggregateAnswers(e, e.bm25Index, BM25Lists)}

\* rerank: vectorPipeline; with filters the $vectorSearch stage itself
\* carries {filter: filters}: the index returns the matching documents, or
\* the store throws because the index does not define the field as a filter
vectorPipelineAnswers(e, filters) ==
    IF hasKeys(filters)
    THEN {[threw |-> a.threw, list |-> matchStage(a.list, filters)] :
             a \in aggregateAnswers(e, e.vectorIndex, VectorLists)}
         \cup {[threw |-> TRUE, list |-> <<>>]}
    ELSE aggregateAnswers(e, e.vectorIndex, VectorLists)

\* /api/search/rerank after connect: the embedding of the query, both
\* searches in Promise.all, the vector-only retry for user stories, then
\* normalization, fusion, sort, ranks and slice
RerankSearch ==
    /\ searchPc = "validated"
    /\ req.endpoint = "rerank"
    /\ \E embedOk \in BOOLEAN : env' = [env EXCEPT !.embedOk = embedOk]
    /\ IF ~env'.embedOk
       THEN /\ response' = errorResponse(500, "embedding")
            /\ UNCHANGED <<issued, bm25Results, vectorResults, indexFilters>>
       ELSE \E b \in bm25PipelineAnswers(env, req.filters) :
            \E v \in vectorPipelineAnswers(env, req.filters) :
               LET searchError == b.threw \/ v.threw
                   retry == searchError /\ req.useUserStories
                   failed == searchError /\ (~retry \/ v.threw)
                   bm25 == IF searchError THEN <<>> ELSE b.list
               IN /\ issued' = issued \cup {"bm25", "vector"}
                  /\ indexFilters' = IF hasKeys(req.filters) THEN {"vector"} ELSE {}
                  /\ bm25Results' = IF failed THEN <<>> ELSE bm25
                  /\ vectorResults' = IF failed THEN <<>> ELSE v.list
                  /\ response' =
                        IF failed THEN errorResponse(500, "rerank-failed")
                        ELSE okResponse("rerank",
                                 sliceTo(fusedResultsOf(bm25, v.list,
                                             req.fusionMethod, req.bm25Weight,
                                             req.vectorWeight),
                                         req.limit),
                                 FALSE)
    /\ searchPc' = "responded"
    /\ UNCHANGED req
    /\ UNCHANGED <<ingestVars, importVars, jobVars, dedupVars, clientVars, pacingVars, checkVars>>

InitSearchVars ==
    /\ req = Request("vector", FALSE, "rrf", <<4, 6>>, 2, NoFilters)
    /\ env = [reachable |-> TRUE, embedOk |-> TRUE, exists |-> TRUE,
              hasDocs |-> TRUE, bm25Index |-> TRUE, vectorIndex |-> TRUE,
              listable |-> TRUE]
    /\ searchPc = "idle"
    /\ issued = {}
    /\ bm25Results = <<>>
    /\ vectorResults = <<>>
    /\ response = NoResponse
    /\ indexFilters = {}

(***************************************************************************)
(* POST /api/search/deduplicate and calculateTextSimilarity.  A title is   *)
(* the sequence of its whitespace-separated words; thresholds are counted  *)
(* in hundredths.                                                          *)
(***************************************************************************)
MaxResults == 3

Titles == {<<"Login", "with", "valid", "credentials">>,
           <<"Login", "with", "valid", "credential">>,
           <<"login", "with", "valid", "credentials">>,
           <<"Login", "with", "valid">>,
           <<"Logout">>,
           <<"", "Logout">>,
           <<>>}

\* thresholds of a request; 85 is the default
Thresholds == {50, 60, 80, 85, 90, 100, 110}

\* String.prototype.toLowerCase, word by word
lower(word) == IF word = "Login" THEN "login"
               ELSE IF word = "Logout" THEN "logout" ELSE word

toLowerCase(title) == [k \in 1..Len(title) |-> lower(title[k])]

\* new Set(text.toLowerCase().split(/\s+/)): the empty string splits into
\* one empty word, and a title with leading white space (" Logout") into an
\* empty word followed by its words
wordSet(text) ==
    IF text = <<>> THEN {""} ELSE {lower(text[k]) : k \in 1..Len(text)}

\* a union that counts the common words twice
unionSize_Sum(words1, words2) == Cardinality(words1) + Cardinality(words2)

\* new Set([...words1, ...words2]).size
unionSize(words1, words2) == Cardinality(words1 \cup words2)

\* intersection.size / union.size
calculateTextSimilarity(text1, text2) ==
    Frac(Cardinality(wordSet(text1) \cap wordSet(text2)),
         unionSize(wordSet(text1), wordSet(text2)))

\* a comparison that misses a similarity equal to the threshold
reachesThreshold_Strict(similarity, threshold) ==
    similarity.n * 100 > threshold * similarity.d

\* similarity >= threshold
reachesThreshold(similarity, threshold) ==
    similarity.n * 100 >= threshold * similarity.d

\* seenTitles.set(title, result): a known key keeps its place
seenSet(seenTitles, title, entry) ==
    IF \E k \in 1..Len(seenTitles) : seenTitles[k].title = title
    THEN [k \in 1..Len(seenTitles) |->
             IF seenTitles[k].title = title
             THEN [title |-> title, result |-> entry] ELSE seenTitles[k]]
    ELSE Append(seenTitles, [title |-> title, result |-> entry])

\* an inner loop that looks at the title seen last only
firstMatch_LastSeen(seenTitles, title, threshold) ==
    IF seenTitles # <<>>
       /\ reachesThreshold(calculateTextSimilarity(
                               title, seenTitles[Len(seenTitles)].title), threshold)
    THEN Len(seenTitles) ELSE 0

\* the inner for loop: the first seen title whose similarity reaches the
\* threshold (0 when there is none)
firstMatch(seenTitles, title, threshold) ==
    LET hits == {k \in 1..Len(seenTitles) :
                    reachesThreshold(calculateTextSimilarity(title, seenTitles[k].title),
                                     threshold)}
    IN IF hits = {} THEN 0 ELSE SetMin(hits)

\* the outer for loop over results, from entry k on
RECURSIVE dedupLoop(_, _, _, _)
dedupLoop(results, threshold, k, acc) ==
    IF k > Len(results) THEN acc
    ELSE LET entry == results[k]
             title == toLowerCase(entry.title)
             m == firstMatch(acc.seenTitles, title, threshold)
         IN IF m # 0
            THEN dedupLoop(results, threshold, k + 1,
                    [acc EXCEPT !.duplicates =
                        Append(@, [id |-> entry.id, title |-> entry.title,
                                   duplicateOf |-> acc.seenTitles[m].result.id,
                                   similarity |->
                                       calculateTextSimilarity(
                                           title, acc.seenTitles[m].title)])])
            ELSE dedupLoop(results, threshold, k + 1,
                    [acc EXCEPT !.deduplicated = Append(@, entry),
                                !.seenTitles = seenSet(@, title, entry)])

\* the request bodies: results with ids 1, 2, ... and a threshold
DedupInputs ==
    UNION {[1..n -> Titles] : n \in 0..MaxResults}

IdleDedup == [pc |-> "idle", results |-> <<>>, threshold |-> 85,
              deduplicated |-> <<>>, duplicates |-> <<>>]

\* the handler of POST /api/search/deduplicate
Deduplicate ==
    /\ dedup.pc = "received"
    /\ LET out == dedupLoop(dedup.results, dedup.threshold, 1,
                            [deduplicated |-> <<>>, duplicates |-> <<>>,
                             seenTitles |-> <<>>])
       IN dedup' = [dedup EXCEPT !.pc = "responded",
                                 !.deduplicated = out.deduplicated,
                                 !.duplicates = out.duplicates]
    /\ UNCHANGED <<ingestVars, importVars, jobVars, searchVars, clientVars,
                   pacingVars, checkVars>>

InitDedupVars == dedup = IdleDedup

(***************************************************************************)
(* User story analysis (client): handleAnalyze, the eight steps of the     *)
(* pipeline, and the server's POST /api/search/summarize.                  *)
(***************************************************************************)
MaxStories == 3
MaxHits == 2

StoryIds == 1..MaxStories

\* the stored user stories: the first two have the same title
titleOf(id) == IF id <= 2 THEN <<"Logout">> ELSE <<"Login", "with", "valid">>

\* result lists a search endpoint may return: distinct stories
ResultLists ==
    UNION {{list \in [1..n -> [id : StoryIds]] : distinctIds(list)} : n \in 0..MaxHits}

\* what fetch(...) gives: a response with response.ok, a response with an
\* error status, or a rejected promise (the request could not be made)
FetchOutcomes == {"ok", "error", "rejected"}

\* what the chat completion call of the summarize endpoint does
ProviderOutcomes == {"answers", "fails", "malformed"}

StepIds == <<"user_story_input", "query_preprocessing", "hybrid_search",
             "rrf_reranking", "deduplication", "summarization",
             "prompt_template", "llm_generation">>

\* the body of the summarize request: the first two results, or one
\* placeholder entry
summarizeBody(dedupResults) ==
    IF Len(dedupResults) > 0 THEN Len(sliceTo(dedupResults, 2)) ELSE 1

\* POST /api/search/summarize: status and summary of its answer for a body
\* of n results
summarizeEndpoint(n, provider) ==
    IF n = 0 THEN [status |-> 200, summary |-> "No results to summarize"]
    ELSE IF provider = "answers" THEN [status |-> 200, summary |-> "generated"]
    ELSE [status |-> 500, summary |-> Undefined]

\* a pipeline that throws on every response that is not ok
throwsWhenNotOk_EveryStep(step) == TRUE

\* if (!analysisResponse.ok) throw ...: the only step that throws on a
\* response that is not ok
throwsWhenNotOk(step) == step = "llm_generation"

\* POST /api/search/deduplicate as the pipeline calls it (threshold 0.95)
deduplicatedOf(results) ==
    dedupLoop([k \in 1..Len(results) |->
                  [id |-> results[k].id, title |-> titleOf(results[k].id)]],
              95, 1,
              [deduplicated |-> <<>>, duplicates |-> <<>>, seenTitles |-> <<>>])

IdleAnalysis ==
    [pc |-> "idle", searchResults |-> <<>>, rerankResults |-> <<>>,
     dedupResults |-> <<>>, duplicatesRemoved |-> 0,
     summarizeStatus |-> 0, summary |-> "none",
     completed |-> {}, warned |-> {}, error |-> "none",
     relatedTestCases |-> <<>>, contextStories |-> <<>>]

\* the catch block of handleAnalyze
analysisFailed(a, step) ==
    [a EXCEPT !.pc = "failed", !.error = step]

\* one fetch step: rejected promise, or a response that is not ok in a step
\* that throws
aborts(step, outcome) ==
    outcome = "rejected" \/ (outcome = "error" /\ throwsWhenNotOk(step))

\* STEP 1 and STEP 2: the input delay and the preprocess request
Preprocess ==
    /\ analysis.pc = "started"
    /\ \E outcome \in FetchOutcomes :
          analysis' =
              IF aborts("query_preprocessing", outcome)
              THEN analysisFailed([analysis EXCEPT !.completed = {"user_story_input"}],
                                  "query_preprocessing")
              ELSE [analysis EXCEPT !.pc = "hybrid_search",
                                    !.completed = {"user_story_input",
                                                   "query_preprocessing"}]
    /\ UNCHANGED <<ingestVars, importVars, jobVars, searchVars, dedupVars,
                   pacingVars, checkVars>>

\* STEP 3: the hybrid search request
HybridStep ==
    /\ analysis.pc = "hybrid_search"
    /\ \E outcome \in FetchOutcomes : \E results \in ResultLists :
          analysis' =
              IF aborts("hybrid_search", outcome)
              THEN analysisFailed(analysis, "hybrid_search")
              ELSE [analysis EXCEPT
                       !.pc = "rrf_reranking",
                       !.searchResults = IF outcome = "ok" THEN results ELSE <<>>,
                       !.completed = @ \cup {"hybrid_search"}]
    /\ UNCHANGED <<ingestVars, importVars, jobVars, searchVars, dedupVars,
                   pacingVars, checkVars>>

\* STEP 4: the rerank request; the search results are the fallback
RerankStep ==
    /\ analysis.pc = "rrf_reranking"
    /\ \E outcome \in FetchOutcomes : \E results \in ResultLists :
          analysis' =
              IF aborts("rrf_reranking", outcome)
              THEN analysisFailed(analysis, "rrf_reranking")
              ELSE [analysis EXCEPT
                       !.pc = "deduplication",
                       !.rerankResults =
                           IF outcome = "ok" THEN results
                           ELSE sliceTo(analysis.searchResults, 10),
                       !.warned = IF outcome = "ok" THEN @
                                  ELSE @ \cup {"rrf_reranking"},
                       !.completed = @ \cup {"rrf_reranking"}]
    /\ UNCHANGED <<ingestVars, importVars, jobVars, searchVars, dedupVars,
                   pacingVars, checkVars>>

\* STEP 5: the deduplicate request
DedupStep ==
    /\ analysis.pc = "deduplication"
    /\ \E outcome \in FetchOutcomes :
          LET out == deduplicatedOf(analysis.rerankResults)
              used == outcome = "ok" /\ Len(analysis.rerankResults) > 0
          IN analysis' =
              IF aborts("deduplication", outcome)
              THEN analysisFailed(analysis, "deduplication")
              ELSE [analysis EXCEPT
                       !.pc = "summarization",
                       !.dedupResults =
                           IF used
                           THEN [k \in 1..Len(out.deduplicated) |->
                                    [id |-> out.deduplicated[k].id]]
                           ELSE analysis.rerankResults,
                       !.duplicatesRemoved =
                           IF used THEN Len(out.duplicates) ELSE 0,
                       !.warned = IF outcome = "ok" THEN @
                                  ELSE @ \cup {"deduplication"},
                       !.completed = @ \cup {"deduplication"}]
    /\ UNCHANGED <<ingestVars, importVars, jobVars, searchVars, dedupVars,
                   pacingVars, checkVars>>

\* STEP 6: the summarize request; the server answers 500 when its chat
\* completion call fails
SummarizeStep ==
    /\ analysis.pc = "summarization"
    /\ \E reached \in BOOLEAN : \E provider \in ProviderOutcomes :
          LET answer == summarizeEndpoint(summarizeBody(analysis.dedupResults),
                                          provider)
              outcome == IF ~reached THEN "rejected"
                         ELSE IF answer.status = 200 THEN "ok" ELSE "error"
          IN analysis' =
              IF aborts("summarization", outcome)
              THEN analysisFailed([analysis EXCEPT
                                      !.summarizeStatus =
                                          IF reached THEN answer.status ELSE 0],
                                  "summarization")
              ELSE [analysis EXCEPT
                       !.pc = "prompt_template",
                       !.summarizeStatus = answer.status,
                       !.summary = IF outcome = "ok" THEN answer.summary
                                   ELSE "No related user stories found for analysis",
                       !.warned = IF outcome = "ok" THEN @
                                  ELSE @ \cup {"summarization"},
                       !.completed = @ \cup {"summarization"}]
    /\ UNCHANGED <<ingestVars, importVars, jobVars, searchVars, dedupVars,
                   pacingVars, checkVars>>

\* STEP 7: the prompt is built
PromptStep ==
    /\ analysis.pc = "prompt_template"
    /\ analysis' = [analysis EXCEPT !.pc = "llm_generation",
                                    !.completed = @ \cup {"prompt_template"}]
    /\ UNCHANGED <<ingestVars, importVars, jobVars, searchVars, dedupVars,
                   pacingVars, checkVars>>

\* STEP 8: the generation request with the related context, then the
\* final result
GenerateStep ==
    /\ analysis.pc = "llm_generation"
    /\ \E outcome \in FetchOutcomes :
          analysis' =
              IF aborts("llm_generation", outcome)
              THEN analysisFailed(analysis, "llm_generation")
              ELSE [analysis EXCEPT
                       !.pc = "done",
                       !.contextStories = sliceTo(analysis.dedupResults, 2),
                       !.relatedTestCases = sliceTo(analysis.dedupResults, 10),
                       !.completed = @ \cup {"llm_generation"}]
    /\ UNCHANGED <<ingestVars, importVars, jobVars, searchVars, dedupVars,
                   pacingVars, checkVars>>

InitClientVars == analysis = IdleAnalysis

(***************************************************************************)
(* main(): the delay between consecutive batches.  The loop is followed    *)
(* batch by batch for inputs of many batches; delays are milliseconds.     *)
(***************************************************************************)
MaxBatches == 90

\* const DELAY_BETWEEN_BATCHES of each script
DELAY_BETWEEN_BATCHES(prog) ==
    IF prog = "openai-direct" THEN 200
    ELSE IF prog = "testleaf-testcases" THEN 500 ELSE 800

\* the first argument of Math.max in adaptiveDelay
delayFloor(prog) ==
    IF prog = "openai-direct" THEN 50
    ELSE IF prog = "testleaf-testcases" THEN 100 ELSE 200

\* the factor of batchNumber in adaptiveDelay
delayStep(prog) ==
    IF prog = "openai-direct" THEN 2
    ELSE IF prog = "testleaf-testcases" THEN 5 ELSE 15

\* a delay without its floor (0 once the difference is negative)
adaptiveDelay_NoFloor(prog, batchNumber) ==
    IF DELAY_BETWEEN_BATCHES(prog) > batchNumber * delayStep(prog)
    THEN DELAY_BETWEEN_BATCHES(prog) - batchNumber * delayStep(prog)
    ELSE 0

\* Math.max(50, DELAY_BETWEEN_BATCHES - (batchNumber * 2)) and its two
\* variants
adaptiveDelay(prog, batchNumber) ==
    IF DELAY_BETWEEN_BATCHES(prog) - batchNumber * delayStep(prog) > delayFloor(prog)
    THEN DELAY_BETWEEN_BATCHES(prog) - batchNumber * delayStep(prog)
    ELSE delayFloor(prog)

\* Math.floor(i / BATCH_SIZE) + 1
batchNumberOf(offset) == (offset \div BATCH_SIZE) + 1

\* Math.ceil(testcases.length / BATCH_SIZE)
totalBatchesOf(length) == (length + BATCH_SIZE - 1) \div BATCH_SIZE

IdlePacing == [pc |-> "idle", prog |-> "openai-direct", length |-> 0, i |-> 0,
               delay |-> 0, previous |-> 0, delays |-> 0]

\* one iteration of the for loop up to its end: the batch is embedded and
\* inserted, then the loop sleeps unless this was the last batch
BatchDone ==
    /\ pacing.pc = "batch"
    /\ pacing.i < pacing.length
    /\ pacing' =
          IF pacing.i + BATCH_SIZE < pacing.length
          THEN [pacing EXCEPT !.pc = "delay",
                              !.delay = adaptiveDelay(pacing.prog,
                                                      batchNumberOf(pacing.i)),
                              !.previous = pacing.delay,
                              !.delays = @ + 1]
          ELSE [pacing EXCEPT !.i = @ + BATCH_SIZE]
    /\ UNCHANGED <<ingestVars, importVars, jobVars, searchVars, dedupVars,
                   clientVars, checkVars>>

\* the timer of the delay fires: i += BATCH_SIZE
PacingDelayElapsed ==
    /\ pacing.pc = "delay"
    /\ pacing' = [pacing EXCEPT !.pc = "batch", !.i = @ + BATCH_SIZE]
    /\ UNCHANGED <<ingestVars, importVars, jobVars, searchVars, dedupVars,
                   clientVars, checkVars>>

\* the loop condition i < testcases.length fails
LoopExit ==
    /\ pacing.pc = "batch"
    /\ pacing.i >= pacing.length
    /\ pacing' = [pacing EXCEPT !.pc = "done"]
    /\ UNCHANGED <<ingestVars, importVars, jobVars, searchVars, dedupVars,
                   clientVars, checkVars>>

InitPacingVars == pacing = IdlePacing

(***************************************************************************)
(* validateDbCollectionIndex(client, dbName, collectionName, indexName,    *)
(* requireDocuments): one step per awaited call of the driver.             *)
(***************************************************************************)
MaxCount == 1

DbNames == {"rag", "test"}
CollectionNames == {"testcases", "user_stories"}
IndexNames == {"vector_index", "bm25_index"}

\* indexName = null (POST /api/create-embeddings passes null)
NoIndexName == ""

\* what the cluster holds: its databases, the collections of the database
\* asked for, the number of documents and the search indexes of the
\* collection asked for
Clusters ==
    [databases : SUBSET DbNames, collections : SUBSET CollectionNames,
     count : 0..MaxCount, indexes : SUBSET IndexNames]

\* outcomes of one awaited call
CallOutcomes == {"answers", "throws"}

\* err.message of a failed call
ErrMessage == "err.message"

\* the error texts, as the pieces of their template literals
errorOf(check, dbName, collectionName, indexName) ==
    CASE check = "database" ->
            <<"Database '", dbName, "' not found">>
      [] check = "collection" ->
            <<"Collection '", collectionName, "' not found in database '",
              dbName, "'">>
      [] check = "documents" ->
            <<"No documents found in collection '", collectionName,
              "'. Please create embeddings first.">>
      [] check = "index" ->
            <<"Search index '", indexName, "' not found for collection '",
              collectionName, "'">>
      [] check = "indexes-unverified" ->
            <<"Unable to verify search indexes for collection '",
              collectionName, "'.">>
      [] check = "index-unverified" ->
            <<"Could not verify search index '", indexName, "': ", ErrMessage>>
      [] check = "failed" ->
            <<"Validation failed: ", ErrMessage>>

\* return { ok: true }
validationOk == [ok |-> TRUE, error |-> <<>>]

\* return { ok: false, error }
validationError(v, check) ==
    [ok |-> FALSE,
     error |-> errorOf(check, v.dbName, v.collectionName, v.indexName)]

IdleValidation ==
    [pc |-> "idle", dbName |-> "rag", collectionName |-> "testcases",
     indexName |-> NoIndexName, requireDocuments |-> FALSE,
     cluster |-> [databases |-> {}, collections |-> {}, count |-> 0,
                  indexes |-> {}],
     threw |-> {}, ret |-> [ok |-> FALSE, error |-> <<>>]]

\* the function returns
returns(v, ret) == [v EXCEPT !.pc = "returned", !.ret = ret]

\* a listDatabases failure that counts as "database not found"
dbExists_FailClosed(outcome, cluster, dbName) ==
    outcome = "answers" /\ dbName \in cluster.databases

\* dbs.databases.some(d => d.name === dbName), or true when listDatabases
\* failed (inner catch)
dbExists(outcome, cluster, dbName) ==
    IF outcome = "throws" THEN TRUE ELSE dbName \in cluster.databases

\* if (indexName) { ... } return { ok: true }
afterDocuments(v) ==
    IF v.indexName # NoIndexName
    THEN [v EXCEPT !.pc = "listSearchIndexes"]
    ELSE returns(v, validationOk)

\* if (requireDocuments) { ... }
afterCollection(v) ==
    IF v.requireDocuments
    THEN [v EXCEPT !.pc = "countDocuments"]
    ELSE afterDocuments(v)

\* await admin.listDatabases()
ListDatabases(outcome) ==
    /\ validation.pc = "listDatabases"
    /\ LET v == [validation EXCEPT
                    !.threw = IF outcome = "throws"
                              THEN @ \cup {"listDatabases"} ELSE @]
       IN validation' =
             IF ~dbExists(outcome, v.cluster, v.dbName)
             THEN returns(v, validationError(v, "database"))
             ELSE [v EXCEPT !.pc = "listCollections"]
    /\ UNCHANGED <<ingestVars, importVars, jobVars, searchVars, dedupVars,
                   clientVars, pacingVars>>

\* await db.listCollections({ name: collectionName }).toArray(); a throw
\* lands in the outer catch
ListCollections(outcome) ==
    /\ validation.pc = "listCollections"
    /\ validation' =
          IF outcome = "throws"
          THEN returns([validation EXCEPT !.threw = @ \cup {"listCollections"}],
                       validationError(validation, "failed"))
          ELSE IF validation.collectionName \notin validation.cluster.collections
          THEN returns(validation, validationError(validation, "collection"))
          ELSE afterCollection(validation)
    /\ UNCHANGED <<ingestVars, importVars, jobVars, searchVars, dedupVars,
                   clientVars, pacingVars>>

\* await db.collection(collectionName).countDocuments()
CountDocuments(outcome) ==
    /\ validation.pc = "countDocuments"
    /\ validation' =
          IF outcome = "throws"
          THEN returns([validation EXCEPT !.threw = @ \cup {"countDocuments"}],
                       validationError(validation, "failed"))
          ELSE IF validation.cluster.count = 0
          THEN returns(validation, validationError(validation, "documents"))
          ELSE afterDocuments(validation)
    /\ UNCHANGED <<ingestVars, importVars, jobVars, searchVars, dedupVars,
                   clientVars, pacingVars>>

\* await collection.listSearchIndexes().toArray(), inside its own try
ListSearchIndexes(outcome) ==
    /\ validation.pc = "listSearchIndexes"
    /\ validation' =
          IF outcome = "throws"
          THEN returns([validation EXCEPT !.threw = @ \cup {"listSearchIndexes"}],
                       validationError(validation, "index-unverified"))
          ELSE IF outcome = "malformed"
          THEN returns([validation EXCEPT !.threw = @ \cup {"listSearchIndexes"}],
                       validationError(validation, "indexes-unverified"))
          ELSE IF validation.indexName \notin validation.cluster.indexes
          THEN returns(validation, validationError(validation, "index"))
          ELSE returns(validation, validationOk)
    /\ UNCHANGED <<ingestVars, importVars, jobVars, searchVars, dedupVars,
                   clientVars, pacingVars>>

InitCheckVars == validation = IdleValidation

(***************************************************************************)
(* Specifications.                                                         *)
(***************************************************************************)
InitIngestVars ==
    /\ i = 0
    /\ workers = [r \in Records |-> IdleWorker]
    /\ result = [r \in Records |-> NoResult]
    /\ queue = <<>>
    /\ successfulEmbeddings = <<>>
    /\ store \in IF program = "download-batch-results"
                THEN {{}, {[id |-> 1, embedding |-> "vector",
                            embeddingMetadata |->
                                <<[cost |-> 2, tokens |-> 1,
                                   apiSource |-> "openai-direct"]>>]}}
                ELSE {{}}
    /\ totalInserted = 0
    /\ totalFailed = 0
    /\ totalCost = 0
    /\ totalTokens = 0
    /\ processedCount = 0
    /\ j = 0
    /\ insertedInBatch = 0
    /\ failedInBatch = 0
    /\ lastInsert = NoInsert
    /\ batchStatus = "unknown"
    /\ importResults = <<>>
    /\ documents = <<>>

InitJobVars ==
    /\ now = 0
    /\ nextSweep = SWEEP_INTERVAL
    /\ jobs = EmptyMap
    /\ pipe = [id \in JobIds |-> IdlePipe]
    /\ disk = EmptyMap

InitIngest ==
    /\ program \in Programs
    /\ testcases \in 0..MaxRecords
    /\ InitIngestVars
    /\ mainPc = IF program = "download-batch-results" THEN "retrieve" ELSE "loop"
    /\ InitJobVars
    /\ InitSearchVars
    /\ InitDedupVars
    /\ InitClientVars
    /\ InitPacingVars
    /\ InitCheckVars

NextIngest ==
    \/ StartBatch
    \/ LimitNext
    \/ \E r \in Records : ProviderSuccess(r)
    \/ \E r \in Records : \E status \in ErrorStatuses : ProviderError(r, status)
    \/ \E r \in Records : BackoffElapsed(r)
    \/ AllSettled
    \/ InsertSubBatch
    \/ DelayElapsed
    \/ MainFinish
    \/ \E status \in BatchStatuses : RetrieveBatch(status)
    \/ DownloadResults
    \/ ImportInsertMany

SpecIngest == InitIngest /\ [][NextIngest]_vars

InitJobs ==
    /\ program = "server"
    /\ testcases = 0
    /\ mainPc = "none"
    /\ InitIngestVars
    /\ InitJobVars
    /\ InitSearchVars
    /\ InitDedupVars
    /\ InitClientVars
    /\ InitPacingVars
    /\ InitCheckVars

NextJobs ==
    \/ \E id \in JobIds : \E n \in 0..MaxFiles : CreateEmbeddings(id, n)
    \/ \E id \in JobIds : \E code \in {0, 1} : ChildClose(id, code)
    \/ Sweep
    \/ Tick

SpecJobs == InitJobs /\ [][NextJobs]_vars

InitSearch ==
    /\ program = "server"
    /\ testcases = 0
    /\ mainPc = "none"
    /\ InitIngestVars
    /\ InitJobVars
    /\ req \in Requests
    /\ env \in Envs
    /\ searchPc = "received"
    /\ issued = {}
    /\ bm25Results = <<>>
    /\ vectorResults = <<>>
    /\ response = NoResponse
    /\ indexFilters = {}
    /\ InitDedupVars
    /\ InitClientVars
    /\ InitPacingVars
    /\ InitCheckVars

NextSearch ==
    \/ ValidateRequest
    \/ VectorSearch
    \/ BM25Search
    \/ HybridSearch
    \/ RerankConnect
    \/ RerankSearch

SpecSearch == InitSearch /\ [][NextSearch]_vars

InitDedup ==
    /\ program = "server"
    /\ testcases = 0
    /\ mainPc = "none"
    /\ InitIngestVars
    /\ InitJobVars
    /\ InitSearchVars
    /\ InitClientVars
    /\ InitPacingVars
    /\ InitCheckVars
    /\ \E titles \in DedupInputs : \E threshold \in Thresholds :
          dedup = [pc |-> "received",
                   results |-> [k \in 1..Len(titles) |->
                                   [id |-> k, title |-> titles[k]]],
                   threshold |-> threshold,
                   deduplicated |-> <<>>, duplicates |-> <<>>]

NextDedup == Deduplicate

SpecDedup == InitDedup /\ [][NextDedup]_vars

InitAnalysis ==
    /\ program = "client"
    /\ testcases = 0
    /\ mainPc = "none"
    /\ InitIngestVars
    /\ InitJobVars
    /\ InitSearchVars
    /\ InitDedupVars
    /\ analysis = [IdleAnalysis EXCEPT !.pc = "started"]
    /\ InitPacingVars
    /\ InitCheckVars

NextAnalysis ==
    \/ Preprocess
    \/ HybridStep
    \/ RerankStep
    \/ DedupStep
    \/ SummarizeStep
    \/ PromptStep
    \/ GenerateStep

SpecAnalysis == InitAnalysis /\ [][NextAnalysis]_vars

InitPacing ==
    /\ program = "openai-direct"
    /\ testcases = 0
    /\ mainPc = "none"
    /\ InitIngestVars
    /\ InitJobVars
    /\ InitSearchVars
    /\ InitDedupVars
    /\ InitClientVars
    /\ InitCheckVars
    /\ \E prog \in EmbeddingScripts : \E length \in 0..(MaxBatches * BATCH_SIZE) :
          pacing = [IdlePacing EXCEPT !.pc = "batch", !.prog = prog,
                                      !.length = length]

NextPacing ==
    \/ BatchDone
    \/ PacingDelayElapsed
    \/ LoopExit

SpecPacing == InitPacing /\ [][NextPacing]_vars

InitValidation ==
    /\ program = "server"
    /\ testcases = 0
    /\ mainPc = "none"
    /\ InitIngestVars
    /\ InitJobVars
    /\ InitSearchVars
    /\ InitDedupVars
    /\ InitClientVars
    /\ InitPacingVars
    /\ \E dbName \in DbNames : \E collectionName \in CollectionNames :
       \E indexName \in IndexNames \cup {NoIndexName} :
       \E requireDocuments \in BOOLEAN : \E cluster \in Clusters :
          /\ dbName \notin cluster.databases => cluster.collections = {}
          /\ collectionName \notin cluster.collections =>
                (cluster.count = 0 /\ cluster.indexes = {})
          /\ validation = [IdleValidation EXCEPT
                              !.pc = "listDatabases", !.dbName = dbName,
                              !.collectionName = collectionName,
                              !.indexName = indexName,
                              !.requireDocuments = requireDocuments,
                              !.cluster = cluster]

NextValidation ==
    \/ \E outcome \in CallOutcomes : ListDatabases(outcome)
    \/ \E outcome \in CallOutcomes : ListCollections(outcome)
    \/ \E outcome \in CallOutcomes : CountDocuments(outcome)
    \/ \E outcome \in CallOutcomes \cup {"malformed"} : ListSearchIndexes(outcome)

SpecValidation == InitValidation /\ [][NextValidation]_vars

(***************************************************************************)
(* Properties.                                                             *)
(***************************************************************************)
Embedding == program \in EmbeddingScripts

\* C1: at every moment the number of provider calls in flight is at most
\* CONCURRENT_LIMIT, whatever the number of records and the failures/retries.
C1_InFlightWithinLimit == inFlight <= CONCURRENT_LIMIT

\* the limiter is full, a task is waiting, and a running task is on a retry
C1_Witness ==
    /\ inFlight = CONCURRENT_LIMIT
    /\ queue # <<>>
    /\ \E r \in Records : workers[r].st = "calling" /\ workers[r].attempt > 1

\* C2: when the pipeline finishes over N records, the reported inserted
\* count plus the reported failed count equals N.
C2_InsertedPlusFailedIsN ==
    (Embedding /\ mainPc = "done") => totalInserted + totalFailed = testcases

\* a finished run of two batches in which the first bulk write succeeded,
\* the last bulk write threw, and a record of the first batch failed
C2_Witness ==
    /\ Embedding /\ mainPc = "done"
    /\ testcases > BATCH_SIZE
    /\ totalInserted > 0
    /\ lastInsert.called /\ lastInsert.inserted = 0
    /\ totalFailed > lastInsert.failed

\* C3: when the pipeline finishes, the number of documents written to the
\* store during the run equals the inserted count the pipeline reports, also
\* when an unordered bulk write rejects only some documents of a group.
C3_StoreMatchesReported ==
    (Embedding /\ mainPc = "done") => Cardinality(store) = totalInserted

C5_OneResultPerRecord ==
    /\ \A r \in Records :
          /\ workers[r].calls <= maxRetries
          /\ workers[r].st = "done" =>
                /\ workers[r].calls >= 1
                /\ \/ /\ result[r].kind = "ok"
                      /\ result[r].embedding # Undefined
                      /\ result[r].metadata # NoObject
                   \/ /\ result[r].kind = "error"
                      /\ result[r].cost = 0 /\ result[r].tokens = 0
          /\ workers[r].st # "done" => result[r].kind = "none"
    /\ (Embedding /\ mainPc \in {"inserting", "delay"}) =>
          \A r \in SeqToSet(batchOf(i)) : result[r].kind \in {"ok", "error"}
    /\ (Embedding /\ mainPc = "done") => processedCount = testcases

\* a batch has settled in which one record used up its retries and another
\* record, queued behind it, embedded
C5_Witness ==
    /\ mainPc = "inserting"
    /\ \E r1, r2 \in Records :
          /\ r1 < r2
          /\ result[r1].kind = "error" /\ workers[r1].calls = maxRetries
          /\ result[r2].kind = "ok"

C7_EveryJobCompletes ==
    \A id \in JobIds : pipe[id].pc = "done" => pipe[id].reachedCompleted

\* C8: a file whose run exits non-zero gets a results entry 'failed' and
\* processing continues with the next file; the job status is only ever
\* 'in-progress' or 'completed'.
C8_FailureRecordedJobContinues ==
    /\ \A id \in DOMAIN jobs : jobs[id].status \in {"in-progress", "completed"}
    /\ \A id \in JobIds :
          LET p == pipe[id] IN
          /\ Len(p.results) = Len(p.codes)
          /\ \A k \in 1..Len(p.results) :
                /\ p.results[k].file = p.files[k]
                /\ p.results[k].status = IF p.codes[k] = 0 THEN "completed" ELSE "failed"
          /\ p.pc = "spawned" => p.idx = Len(p.results) + 1 /\ p.idx <= Len(p.files)
          /\ p.pc = "done" => Len(p.results) = Len(p.files)
          /\ id \in DOMAIN jobs =>
                /\ jobs[id].results = p.results
                /\ jobs[id].progress = Len(p.results)

\* a completed job whose first file failed and whose second file was still run
C8_Witness ==
    \E id \in DOMAIN jobs :
        /\ jobs[id].status = "completed"
        /\ Len(jobs[id].results) >= 2
        /\ jobs[id].results[1].status = "failed"
        /\ jobs[id].results[2].status = "completed"

wasCreated(id) == pipe[id].pc # "idle"
evicted(id) == wasCreated(id) /\ id \notin DOMAIN jobs

\* C9: the sweep removes every job whose start time is more than one hour
\* old, whatever its status, and no job younger than that; a job does not
\* stay longer than one sweep period (plus one clock step) past the hour;
\* once evicted, getJob reports not-found from then on and updateJob does
\* not re-create the job.
C9_SweepEvictsAfterOneHour ==
    /\ [](\A id \in JobIds :
            /\ evicted(id) => now - pipe[id].createdAt > RETENTION
            /\ evicted(id) => getJob(id) = Undefined
            /\ id \in DOMAIN jobs =>
                  now - jobs[id].startTime <= RETENTION + SWEEP_INTERVAL + TickStep)
    /\ [][/\ nextSweep' # nextSweep =>
               \A id \in DOMAIN jobs :
                   (now - jobs[id].startTime > RETENTION) <=> (id \notin DOMAIN jobs')
          /\ \A id \in JobIds : evicted(id) => id \notin DOMAIN jobs']_vars

\* a job was evicted while in progress and its pipeline has since finished
C9_Witness ==
    \E id \in JobIds :
        /\ evicted(id)
        /\ pipe[id].pc = "done"
        /\ ~pipe[id].reachedCompleted

\* records with a provider call outstanding, queued or backing off
inProgress == {r \in Records : workers[r].st \in {"queued", "calling", "sleeping"}}

\* C11: batches are processed strictly one after another: while any embedding
\* task of a batch is queued, calling or backing off, the main loop is in
\* that batch's embedding phase, every earlier batch has been counted with
\* its store writes accounted for, and the store is written only while no
\* embedding task is outstanding.
C11_BatchesStrictlySequential ==
    /\ [](Embedding =>
            /\ \A r \in inProgress : mainPc = "embedding" /\ r \in SeqToSet(batchOf(i))
            /\ mainPc = "embedding" =>
                  /\ processedCount = i
                  /\ totalInserted + totalFailed = i
                  /\ \A d \in store : d.id <= i)
    /\ [][(Embedding /\ store' # store) =>
              (mainPc = "inserting" /\ inProgress = {} /\ inProgress' = {})]_vars

\* a provider call of the second batch is in flight after the first batch
\* wrote to the store
C11_Witness ==
    /\ Embedding /\ mainPc = "embedding"
    /\ i >= BATCH_SIZE
    /\ store # {}
    /\ \E r \in Records : workers[r].st = "calling"

\* C10: every document of the store has an embedding if and only if it has
\* embeddingMetadata.
C10_EmbeddingIffMetadata ==
    \A d \in store :
        (d.embedding # Undefined) <=> (d.embeddingMetadata # NoObject)

\* part of a group is in the store after a bulk write that threw
C10_Witness ==
    /\ Embedding
    /\ lastInsert.called /\ lastInsert.inserted = 0
    /\ \E d \in store : d.id \in SeqToSet(lastInsert.group)
    /\ Len(lastInsert.group) >= 2
    /\ Cardinality({d \in store : d.id \in SeqToSet(lastInsert.group)}) = 1

\* the request was answered with the fused list of the rerank endpoint
rerankAnswered ==
    searchPc = "responded" /\ response.success /\ response.searchType = "rerank"

\* the request was answered with the combined list of the hybrid endpoint
hybridAnswered ==
    /\ searchPc = "responded" /\ response.success
    /\ response.searchType \in {"hybrid", "vector-only"}

inUnitInterval(f) == f.d > 0 /\ 0 <= f.n /\ f.n <= f.d

\* C12: every normalized score the rerank and hybrid endpoints compute
\* (bm25Normalized / vectorNormalized, bm25ScoreNormalized /
\* vectorScoreNormalized) lies in [0,1], whatever the two candidate lists.
C12_NormalizedWithinUnitInterval ==
    /\ rerankAnswered =>
          \A k \in 1..Len(response.results) :
              /\ inUnitInterval(response.results[k].bm25Normalized)
              /\ inUnitInterval(response.results[k].vectorNormalized)
    /\ hybridAnswered =>
          \A k \in 1..Len(response.results) :
              /\ inUnitInterval(response.results[k].bm25ScoreNormalized)
              /\ inUnitInterval(response.results[k].vectorScoreNormalized)

\* a rerank answer over BM25 scores above 1.0, with one normalized score
\* equal to 1 and another strictly inside the interval
C12_Witness ==
    /\ rerankAnswered
    /\ \E k \in 1..Len(bm25Results) : bm25Results[k].score > One
    /\ \E k1, k2 \in 1..Len(response.results) :
          LET f1 == response.results[k1].bm25Normalized
              f2 == response.results[k2].bm25Normalized
          IN f1.n = f1.d /\ 0 < f2.n /\ f2.n < f2.d

\* min-max normalization over the list's own scores: 1 when they are all
\* equal, (score - min) / (max - min) otherwise
ownMinMax(score, list) ==
    IF SetMax(scoresOf(list)) = SetMin(scoresOf(list)) THEN Frac(1, 1)
    ELSE Frac(score - SetMin(scoresOf(list)),
              SetMax(scoresOf(list)) - SetMin(scoresOf(list)))

\* C13: when all raw scores of one method's candidates are equal, every
\* normalized score of that method is 1.0; normalization uses the minimum
\* and maximum of that method's own candidate scores only.
C13_EqualScoresNormalizeToOne ==
    /\ rerankAnswered =>
          \A k \in 1..Len(response.results) :
              LET e == response.results[k] IN
              /\ e.bm25Rank # 0 =>
                    fracEq(e.bm25Normalized, ownMinMax(e.bm25Score, bm25Results))
              /\ e.vectorRank # 0 =>
                    fracEq(e.vectorNormalized, ownMinMax(e.vectorScore, vectorResults))
    /\ hybridAnswered =>
          \A k \in 1..Len(response.results) :
              LET e == response.results[k] IN
              /\ e.foundIn \in {"bm25", "both"} =>
                    fracEq(e.bm25ScoreNormalized, ownMinMax(e.bm25Score, bm25Results))
              /\ e.foundIn \in {"vector", "both", "vector-only"} =>
                    fracEq(e.vectorScoreNormalized,
                           ownMinMax(e.vectorScore, vectorResults))

\* A is in the list and B is not, or A stands before B
outranksIn(rankA, rankB) == rankA # 0 /\ (rankB = 0 \/ rankA < rankB)

\* A outranks B in every method that lists either of them
outranksEverywhere(a, b) ==
    /\ (a.bm25Rank # 0 \/ b.bm25Rank # 0) => outranksIn(a.bm25Rank, b.bm25Rank)
    /\ (a.vectorRank # 0 \/ b.vectorRank # 0) =>
          outranksIn(a.vectorRank, b.vectorRank)

\* C14: under 'rrf', if A outranks B in every contributing method's list
\* then A's fused score is greater than or equal to B's.
C14_RRFMonotonic ==
    (rerankAnswered /\ req.fusionMethod = "rrf") =>
        \A k1, k2 \in 1..Len(response.results) :
            LET a == response.results[k1]
                b == response.results[k2]
            IN outranksEverywhere(a, b) => ~fracLess(a.fusedScore, b.fusedScore)

\* an rrf answer in which a document listed by both methods outranks, in
\* both, another document listed by both
C14_Witness ==
    /\ rerankAnswered /\ req.fusionMethod = "rrf"
    /\ \E k1, k2 \in 1..Len(response.results) :
          LET a == response.results[k1]
              b == response.results[k2]
          IN /\ a.foundIn = "both" /\ b.foundIn = "both"
             /\ a.bm25Rank < b.bm25Rank /\ a.vectorRank < b.vectorRank
             /\ a.vectorRank # a.bm25Rank

\* multipliers of the weights
Scalings == {2, 3}

\* C15: under weighted fusion, multiplying bm25Weight and vectorWeight by
\* the same positive constant leaves the order of the returned results
\* unchanged.
C15_WeightScalingKeepsRanking ==
    /\ (rerankAnswered /\ req.fusionMethod = "weighted") =>
          \A c \in Scalings :
              idsOf(response.results) =
                  idsOf(sliceTo(fusedResultsOf(bm25Results, vectorResults, "weighted",
                                               c * req.bm25Weight, c * req.vectorWeight),
                                req.limit))
    /\ hybridAnswered =>
          \A c \in Scalings :
              idsOf(response.results) =
                  idsOf(sliceTo(finalResultsOf(bm25Results, vectorResults,
                                               response.bm25Skipped,
                                               c * req.bm25Weight,
                                               c * req.vectorWeight,
                                               req.filters),
                                req.limit))

\* a weighted rerank answer whose order depends on the weights: with the two
\* weights exchanged the order would be another one
C15_Witness ==
    /\ rerankAnswered /\ req.fusionMethod = "weighted"
    /\ Len(response.results) >= 3
    /\ idsOf(response.results) #
          idsOf(sliceTo(fusedResultsOf(bm25Results, vectorResults, "weighted",
                                       req.vectorWeight, req.bm25Weight),
                        req.limit))

\* the store the degraded mode is about: reachable, documents and the
\* vector index present, the lexical index missing (the embedding provider
\* answers, the index listing is permitted)
lexicalIndexMissing ==
    /\ env.reachable /\ env.embedOk /\ env.listable
    /\ env.exists /\ env.hasDocs /\ env.vectorIndex /\ ~env.bm25Index

\* the response is the vector result list in its order (the results that
\* pass the request's filters), flagged as degraded
vectorOnlyDegraded ==
    /\ response.status = 200 /\ response.success
    /\ response.bm25Skipped
    /\ idsOf(response.results) =
          idsOf(sliceTo(postFilter(vectorResults, req.filters), req.limit))

preconditionFails ==
    \/ ~env.exists
    \/ ~env.hasDocs
    \/ req.endpoint \in {"vector", "hybrid", "rerank"} /\ ~env.vectorIndex
    \/ req.endpoint = "bm25" /\ ~env.bm25Index
    \/ req.endpoint \in {"hybrid", "rerank"} /\ ~req.useUserStories /\ ~env.bm25Index

\* C17: every search operation checks its preconditions before any search
\* query is issued; when one fails the caller receives a single explanatory
\* error, never a successful response with an empty or substitute list
\* (the store is reachable and the embedding provider answers).
C17_PreconditionsCheckedFirst ==
    (searchPc = "responded" /\ env.reachable /\ env.embedOk /\ preconditionFails) =>
        /\ issued = {}
        /\ ~response.success
        /\ response.status = 400

\* position of a document in resultMap's insertion order: its place in the
\* BM25 list, or behind that list in the order of the vector list
insertionIndex(id) ==
    IF rankIn(bm25Results, id) # 0 THEN rankIn(bm25Results, id)
    ELSE Len(bm25Results) + rankIn(vectorResults, id)
             - Cardinality({k \in 1..rankIn(vectorResults, id) :
                              rankIn(bm25Results, vectorResults[k].id) # 0})

\* the list is ordered by score non-increasing, equal scores in insertion
\* order
orderedStable(scores, ids) ==
    \A k \in 1..(Len(scores) - 1) :
        /\ ~fracLess(scores[k], scores[k + 1])
        /\ fracEq(scores[k], scores[k + 1]) =>
              insertionIndex(ids[k]) < insertionIndex(ids[k + 1])

\* C20: the list returned by the fusion endpoints is ordered by fused score
\* non-increasing (hybridScore, fusedScore), candidates with equal scores
\* keep their insertion order, and in rerank newRank is the 1-based position.
C20_OrderedByFusedScoreStable ==
    /\ rerankAnswered =>
          /\ orderedStable([k \in 1..Len(response.results) |->
                               response.results[k].fusedScore],
                           idsOf(response.results))
          /\ \A k \in 1..Len(response.results) : response.results[k].newRank = k
    /\ hybridAnswered =>
          orderedStable([k \in 1..Len(response.results) |->
                            response.results[k].hybridScore],
                        idsOf(response.results))

\* a rerank answer of three results in which the sort moved a document to
\* the front and left two documents with equal scores in insertion order
C20_Witness ==
    /\ rerankAnswered
    /\ Len(response.results) >= 3
    /\ insertionIndex(response.results[1].id) > 1
    /\ \E k \in 1..(Len(response.results) - 1) :
          fracEq(response.results[k].fusedScore, response.results[k + 1].fusedScore)

Credentials == <<"Login", "with", "valid", "credentials">>
Credential == <<"Login", "with", "valid", "credential">>

isRetained(id) ==
    \E k \in 1..Len(dedup.deduplicated) : dedup.deduplicated[k].id = id

isDuplicate(id) ==
    \E k \in 1..Len(dedup.duplicates) : dedup.duplicates[k].id = id

\* the entry duplicateOf names for a duplicate
duplicateOf(id) ==
    (CHOOSE d \in SeqToSet(dedup.duplicates) : d.id = id).duplicateOf

\* pairs of entries with identical titles, the earlier one first
sameTitlePairs ==
    {pq \in (1..Len(dedup.results)) \X (1..Len(dedup.results)) :
        /\ pq[1] < pq[2]
        /\ dedup.results[pq[1]].title = dedup.results[pq[2]].title}

\* C18 as stated: for any input list with two entries of identical titles,
\* the later is classified as a duplicate of the earlier (never the
\* reverse), and the primary output contains exactly one of the two.
C18_LaterIsDuplicateOfEarlier ==
    dedup.pc = "responded" =>
        \A pq \in sameTitlePairs :
            /\ isDuplicate(pq[2]) /\ duplicateOf(pq[2]) = pq[1]
            /\ ~(isDuplicate(pq[1]) /\ duplicateOf(pq[1]) = pq[2])
            /\ isRetained(pq[1]) /\ ~isRetained(pq[2])

\* C18 amended: with a threshold of at most 1, the later entry is always
\* classified as a duplicate and never the reverse; duplicateOf names the
\* earlier entry when the earlier entry was retained, and otherwise the
\* retained entry the earlier one was merged into; the primary output
\* contains the earlier entry in the first case and neither in the second.
C18_LaterIsDuplicateOfRetained ==
    (dedup.pc = "responded" /\ dedup.threshold <= 100) =>
        \A pq \in sameTitlePairs :
            /\ isDuplicate(pq[2]) /\ ~isRetained(pq[2])
            /\ ~(isDuplicate(pq[1]) /\ duplicateOf(pq[1]) = pq[2])
            /\ isRetained(pq[1]) # isDuplicate(pq[1])
            /\ isRetained(pq[1]) => duplicateOf(pq[2]) = pq[1]
            /\ isDuplicate(pq[1]) =>
                  /\ duplicateOf(pq[2]) = duplicateOf(pq[1])
                  /\ isRetained(duplicateOf(pq[1]))

\* two entries with identical titles follow an entry both were merged into
C18_Witness ==
    /\ dedup.pc = "responded" /\ dedup.threshold <= 100
    /\ \E pq \in sameTitlePairs :
          /\ isDuplicate(pq[1]) /\ isDuplicate(pq[2])
          /\ duplicateOf(pq[2]) < pq[1]

\* the request holds exactly the two titles of the scenario
loginScenario ==
    /\ dedup.pc = "responded"
    /\ Len(dedup.results) = 2
    /\ dedup.results[1].title = Credentials
    /\ dedup.results[2].title = Credential

bothRetained == Len(dedup.deduplicated) = 2 /\ dedup.duplicates = <<>>

secondMerged ==
    /\ Len(dedup.deduplicated) = 1 /\ dedup.deduplicated[1].id = 1
    /\ Len(dedup.duplicates) = 1
    /\ dedup.duplicates[1].id = 2 /\ dedup.duplicates[1].duplicateOf = 1

\* C19 as stated: the titles "Login with valid credentials" and "Login with
\* valid credential" are both retained with threshold 0.9, and with
\* threshold 0.8 the second is merged into the first.
C19_MergedAtPointEight ==
    loginScenario =>
        /\ dedup.threshold = 90 => bothRetained
        /\ dedup.threshold = 80 => secondMerged

\* C19 amended: the similarity of the two titles is the word-level Jaccard
\* 3/5 = 0.6, so both are retained with threshold 0.9 and with threshold
\* 0.8 alike; the second is merged into the first only with a threshold of
\* at most 0.6.
C19_MergedAtPointSix ==
    loginScenario =>
        /\ dedup.threshold > 60 => bothRetained
        /\ dedup.threshold <= 60 =>
              /\ secondMerged
              /\ fracEq(dedup.duplicates[1].similarity, Frac(3, 5))

\* the two titles were deduplicated with threshold 0.8 and both retained
C19_Witness ==
    /\ loginScenario
    /\ dedup.threshold = 80
    /\ bothRetained

\* the candidates of the two methods (in hybrid, those that pass the
\* filter applied to the combined list)
candidateIds ==
    IF hybridAnswered
    THEN SeqToSet(idsOf(postFilter(bm25Results, req.filters)))
             \cup SeqToSet(idsOf(postFilter(vectorResults, req.filters)))
    ELSE SeqToSet(idsOf(bm25Results)) \cup SeqToSet(idsOf(vectorResults))

\* the provenance tag an entry must carry for its ranks in the two lists
\* ('vector-only' is the tag of the vector method when BM25 was skipped)
tagsFor(br, vr) ==
    IF br # 0 /\ vr # 0 THEN {"both"}
    ELSE IF br # 0 THEN {"bm25"}
    ELSE {"vector", "vector-only"}

\* C21: in the fused candidate set every _id appears exactly once; a
\* candidate returned by both methods is one entry tagged 'both' that carries
\* both methods' scores, a candidate returned by one method is tagged with
\* that method and has the other method's score equal to 0.
C21_OneEntryPerCandidate ==
    (rerankAnswered \/ hybridAnswered) =>
        /\ distinctIds(response.results)
        /\ SeqToSet(idsOf(response.results)) \subseteq candidateIds
        /\ Cardinality(candidateIds) <= req.limit =>
              SeqToSet(idsOf(response.results)) = candidateIds
        /\ \A k \in 1..Len(response.results) :
              LET e == response.results[k]
                  br == rankIn(bm25Results, e.id)
                  vr == rankIn(vectorResults, e.id)
              IN /\ e.foundIn \in tagsFor(br, vr)
                 /\ e.bm25Score = IF br # 0 THEN bm25Results[br].score ELSE 0
                 /\ e.vectorScore = IF vr # 0 THEN vectorResults[vr].score ELSE 0
                 /\ br = 0 => IF rerankAnswered
                              THEN e.bm25Normalized = Zero /\ e.bm25Rank = 0
                              ELSE e.bm25ScoreNormalized = Zero
                 /\ vr = 0 => IF rerankAnswered
                              THEN e.vectorNormalized = Zero /\ e.vectorRank = 0
                              ELSE e.vectorScoreNormalized = Zero

\* a rerank answer with a candidate of both methods, one of BM25 alone and
\* one of the vector search alone
C21_Witness ==
    /\ rerankAnswered
    /\ \E k1, k2, k3 \in 1..Len(response.results) :
          /\ response.results[k1].foundIn = "both"
          /\ response.results[k2].foundIn = "bm25"
          /\ response.results[k3].foundIn = "vector"

\* a returned result matches every filter of the request whose value is not
\* empty
matchesFilters(id) ==
    \A key \in DOMAIN req.filters :
        req.filters[key] # "" => fieldOf(id, key) = req.filters[key]

\* C22: in every search endpoint the filters are an exact-match post-filter
\* on the ranked candidates and are never passed into the index query
\* itself; every returned result matches every non-empty filter value.
C22_FiltersArePostFilters ==
    searchPc = "responded" =>
        /\ indexFilters = {}
        /\ response.success =>
              \A k \in 1..Len(response.results) :
                  matchesFilters(response.results[k].id)

\* the summarize request was answered with an error status: the chat
\* completion call of the server failed
summarizeFailed == analysis.summarizeStatus = 500

\* C23: a failure of the LLM summarization call is reported but does not
\* abort the pipeline: the step is left with a warning, the retrieved and
\* deduplicated results are unchanged by it, and the remaining steps run
\* with these results.
C23_SummarizeFailureDoesNotAbort ==
    /\ [](summarizeFailed =>
            /\ "summarization" \in analysis.warned
            /\ "summarization" \in analysis.completed
            /\ analysis.pc \in {"prompt_template", "llm_generation", "done", "failed"}
            /\ analysis.pc = "failed" => analysis.error = "llm_generation"
            /\ analysis.pc = "done" =>
                  /\ analysis.relatedTestCases = sliceTo(analysis.dedupResults, 10)
                  /\ analysis.contextStories = sliceTo(analysis.dedupResults, 2))
    /\ [][(analysis.pc \in {"summarization", "prompt_template", "llm_generation"}) =>
              /\ analysis'.searchResults = analysis.searchResults
              /\ analysis'.rerankResults = analysis.rerankResults
              /\ analysis'.dedupResults = analysis.dedupResults]_vars

\* the pipeline finished after a failed summarization, with two results
\* left by a deduplication that removed one
C23_Witness ==
    /\ summarizeFailed
    /\ analysis.pc = "done"
    /\ Len(analysis.relatedTestCases) >= 1
    /\ analysis.duplicatesRemoved >= 1

\* workers waiting after a rate-limit failure
rateLimited == {r \in Records : workers[r].st = "sleeping" /\ workers[r].err = 429}

\* the wait after the first rate-limit failure, seconds
firstWait(prog) == IF prog = "openai-direct" THEN 2 ELSE 1

\* C24 as stated: after a rate-limit failure the wait before the next
\* attempt doubles with each attempt starting from 1s (1s, 2s, 4s, ...) and
\* is never longer than 10s.
C24_BackoffFromOneSecond ==
    Embedding =>
        \A r \in rateLimited :
            /\ workers[r].wait = Min(2 ^ (workers[r].attempt - 1), 10)
            /\ workers[r].wait <= 10

\* C24 amended: the wait doubles with each attempt and is never longer than
\* 10s; it starts from 2s in the direct script (2s, 4s, 8s) and from 1s in
\* the Testleaf scripts (1s, 2s).
C24_BackoffDoublesWithinCap ==
    Embedding =>
        \A r \in rateLimited :
            /\ workers[r].wait =
                   Min(firstWait(program) * 2 ^ (workers[r].attempt - 1), 10)
            /\ workers[r].wait <= 10

\* a worker of the direct script waits after its third rate-limit failure
\* while a worker waits after its first
C24_Witness ==
    /\ program = "openai-direct"
    /\ \E r1, r2 \in rateLimited :
          /\ workers[r1].attempt = 3 /\ workers[r1].wait = 8
          /\ workers[r2].attempt = 1 /\ workers[r2].wait = 2

\* C25: the delay applied between consecutive batches is non-increasing in
\* the batch number and never below the floor (50 ms in the direct script,
\* 100 ms and 200 ms in the Testleaf scripts), for any number of batches;
\* no delay is applied after the last batch.
C25_DelayNonIncreasingAboveFloor ==
    /\ pacing.pc = "delay" =>
          /\ pacing.delay >= delayFloor(pacing.prog)
          /\ pacing.delay >= IF pacing.prog = "openai-direct" THEN 50
                             ELSE IF pacing.prog = "testleaf-testcases" THEN 100
                             ELSE 200
          /\ pacing.delays > 1 => pacing.delay <= pacing.previous
          /\ batchNumberOf(pacing.i) < totalBatchesOf(pacing.length)
    /\ pacing.pc = "done" =>
          pacing.delays = IF pacing.length = 0 THEN 0
                          ELSE totalBatchesOf(pacing.length) - 1

\* the delay has come down to the floor and stays there: the same delay of
\* 50 ms as after the batch before, in the direct script
C25_Witness ==
    /\ pacing.pc = "delay"
    /\ pacing.prog = "openai-direct"
    /\ pacing.delay = 50 /\ pacing.previous = 50
    /\ DELAY_BETWEEN_BATCHES(pacing.prog)
           - batchNumberOf(pacing.i) * delayStep(pacing.prog) < 50

\* similarity of the titles of two entries of the request, and whether it
\* is at least the threshold of the request
similarityOf(p, q) ==
    calculateTextSimilarity(toLowerCase(dedup.results[p].title),
                            toLowerCase(dedup.results[q].title))

similar(p, q) ==
    similarityOf(p, q).n * 100 >= dedup.threshold * similarityOf(p, q).d

\* C26: the deduplicator keeps a result if and only if the similarity of
\* its title to every previously kept title is below the threshold; the
\* first result is kept, kept and duplicate lists partition the input, kept
\* results preserve input order, no two kept results are similar, and every
\* duplicate's duplicateOf is the id of a kept result that precedes it.
C26_KeptIffBelowThreshold ==
    dedup.pc = "responded" =>
        LET n == Len(dedup.results) IN
        /\ \A p \in 1..n :
              isRetained(p) <=> \A q \in 1..(p - 1) : isRetained(q) => ~similar(p, q)
        /\ n >= 1 => isRetained(1)
        /\ Len(dedup.deduplicated) + Len(dedup.duplicates) = n
        /\ \A p \in 1..n : isRetained(p) # isDuplicate(p)
        /\ \A k \in 1..(Len(dedup.deduplicated) - 1) :
              dedup.deduplicated[k].id < dedup.deduplicated[k + 1].id
        /\ \A k \in 1..Len(dedup.deduplicated) :
              dedup.deduplicated[k] = dedup.results[dedup.deduplicated[k].id]
        /\ \A p, q \in 1..n :
              (p # q /\ isRetained(p) /\ isRetained(q)) => ~similar(p, q)
        /\ \A k \in 1..Len(dedup.duplicates) :
              /\ isRetained(dedup.duplicates[k].duplicateOf)
              /\ dedup.duplicates[k].duplicateOf < dedup.duplicates[k].id

\* three results: the third is a duplicate of the second, which is kept
\* although it shares words with the first
C26_Witness ==
    /\ dedup.pc = "responded"
    /\ Len(dedup.results) = 3
    /\ isRetained(1) /\ isRetained(2)
    /\ isDuplicate(3) /\ duplicateOf(3) = 2
    /\ similarityOf(1, 2).n > 0

\* the title is the empty string; the title has words (white space in
\* front of them or not)
emptyTitle(p) == dedup.results[p].title = <<>>
nonEmptyTitle(p) ==
    \E k \in 1..Len(dedup.results[p].title) : dedup.results[p].title[k] # ""

\* C27: in the deduplicator's similarity function an empty title has
\* similarity 0 against every non-empty title (titles with leading or
\* trailing white space included) and similarity 1 against another empty
\* title.
C27_EmptyTitleSimilarity ==
    dedup.pc = "responded" =>
        \A p, q \in 1..Len(dedup.results) :
            /\ (emptyTitle(p) /\ nonEmptyTitle(q)) => similarityOf(p, q).n = 0
            /\ (emptyTitle(p) /\ emptyTitle(q)) =>
                  similarityOf(p, q).n = similarityOf(p, q).d

\* the progress state the tasks of a batch share with the main loop
sharedProgress == <<processedCount, totalCost, totalTokens, totalInserted,
                    totalFailed, jobs>>

batchTotals == <<totalCost, totalTokens, totalInserted, totalFailed>>

everyWorkerSettled ==
    /\ queue = <<>>
    /\ \A r \in SeqToSet(batchOf(i)) : workers[r].st = "done"

\* C28: a step of an embedding task of the batch (leaving the limiter, a
\* provider answer or error, the end of a backoff) never changes the shared
\* progress state; the processed count changes only in a step of the main
\* loop taken when every task of the batch has settled, and then by the whole
\* batch at once; the cost, token, inserted and failed totals change only in
\* the main loop's last step of the batch, so that each is written once per
\* batch.
C28_ProgressWrittenOncePerBatch ==
    /\ [][(Embedding /\ (workers' # workers \/ result' # result) /\ mainPc = "embedding")
              => sharedProgress' = sharedProgress]_vars
    /\ [][(Embedding /\ processedCount' # processedCount) =>
              /\ everyWorkerSettled
              /\ workers' = workers /\ result' = result
              /\ processedCount = i
              /\ processedCount' = i + Len(batchOf(i))]_vars
    /\ [][(Embedding /\ batchTotals' # batchTotals) =>
              /\ everyWorkerSettled
              /\ workers' = workers /\ result' = result
              /\ processedCount' = i + Len(batchOf(i))
              /\ mainPc' \in {"delay", "loop"}
              /\ totalInserted' + totalFailed' = processedCount']_vars

C28_Witness ==
    /\ Embedding /\ mainPc = "delay"
    /\ Len(batchOf(i)) > CONCURRENT_LIMIT
    /\ everyWorkerSettled
    /\ processedCount = i + Len(batchOf(i))
    /\ totalTokens > 0
    /\ totalInserted > 0
    /\ totalFailed > 0
    /\ \E r \in SeqToSet(batchOf(i)) : workers[r].calls > 1

\* the first check that fails on what the cluster holds, the database
\* counting as present when listDatabases failed
firstFailing(v) ==
    IF "listDatabases" \notin v.threw /\ v.dbName \notin v.cluster.databases
    THEN "database"
    ELSE IF v.collectionName \notin v.cluster.collections THEN "collection"
    ELSE IF v.requireDocuments /\ v.cluster.count = 0 THEN "documents"
    ELSE IF v.indexName # NoIndexName /\ v.indexName \notin v.cluster.indexes
    THEN "index"
    ELSE "none"

FailingChecks == {"database", "collection", "documents", "index"}

\* C29: validateDbCollectionIndex never throws; it answers ok only when no
\* requested check fails; when the calls behind the collection, document and
\* index checks answer, it reports the first failing check in the order
\* database, collection, documents (only when required), index (only when an
\* index name is given), a failed listDatabases counting as "database
\* exists"; and the messages of two different checks differ.
C29_FirstFailingCheckReported ==
    /\ validation.pc # "thrown"
    /\ validation.pc = "returned" =>
          /\ validation.ret.ok =>
                (firstFailing(validation) = "none"
                 /\ validation.threw \subseteq {"listDatabases"})
          /\ validation.threw \subseteq {"listDatabases"} =>
                validation.ret =
                   IF firstFailing(validation) = "none" THEN validationOk
                   ELSE validationError(validation, firstFailing(validation))
          /\ \A c1, c2 \in FailingChecks :
                c1 # c2 => validationError(validation, c1).error
                              # validationError(validation, c2).error

C29_Witness ==
    /\ validation.pc = "returned"
    /\ validation.threw = {"listDatabases"}
    /\ validation.dbName \notin validation.cluster.databases
    /\ validation.requireDocuments
    /\ validation.ret = validationError(validation, "collection")

inFlightRuns == {id \in JobIds : pipe[id].pc = "spawned"}

\* C30: every in-flight embedding child has its own temp script file: two
\* in-flight runs never have the same temp script path, the script of an
\* in-flight run is on disk with the content the run wrote, and no close
\* handler's unlink has failed.
C30_OwnTempScriptPerRun ==
    /\ \A a, b \in inFlightRuns :
          a # b => pipe[a].tempScriptPath # pipe[b].tempScriptPath
    /\ \A a \in inFlightRuns :
          /\ pipe[a].tempScriptPath \in DOMAIN disk
          /\ disk[pipe[a].tempScriptPath] = scriptContent(pipe[a].files[pipe[a].idx])
    /\ ~serverDown

\* C31: every job in the registry has 0 <= progress <= total and progress
\* equal to the number of its results; while a job stays in the registry its
\* progress never decreases and its status never goes from completed back to
\* in-progress; and a step that changes a job's record is a step of that
\* job's own run that leaves the record of every other job as it was.
C31_JobRecordInvariants ==
    /\ [](\A id \in DOMAIN jobs :
            /\ 0 <= jobs[id].progress
            /\ jobs[id].progress <= jobs[id].total
            /\ jobs[id].progress = Len(jobs[id].results))
    /\ [][\A id \in DOMAIN jobs \cap DOMAIN jobs' :
             /\ jobs'[id].progress >= jobs[id].progress
             /\ jobs[id].status = "completed" => jobs'[id].status = "completed"
             /\ jobs'[id] # jobs[id] =>
                   /\ pipe'[id] # pipe[id]
                   /\ \A other \in (DOMAIN jobs \cap DOMAIN jobs') \ {id} :
                         jobs'[other] = jobs[other]]_vars

C31_Witness ==
    /\ DOMAIN jobs = JobIds
    /\ \E a, b \in JobIds :
          /\ jobs[a].status = "completed"
          /\ jobs[a].progress = jobs[a].total
          /\ jobs[b].status = "in-progress"
          /\ jobs[b].progress > 0
          /\ jobs[b].progress < jobs[b].total
          /\ jobs[a].results # jobs[b].results

hybridAnsweredWithStats ==
    /\ searchPc = "responded"
    /\ req.endpoint = "hybrid"
    /\ response.status = 200

\* C32: in every hybrid search response the three foundIn counters of the
\* stats add up to count, the number of returned results, also when the
\* lexical search was skipped and the response is vector-only.
C32_StatsAddUpToCount ==
    hybridAnsweredWithStats =>
        response.stats[1].foundInBoth + response.stats[1].foundInBm25Only
            + response.stats[1].foundInVectorOnly = response.count

\* C33: once the last permitted attempt (attempt = maxRetries) of a record
\* has failed, its task does not sleep again: no task is ever in a backoff
\* sleep, holding its concurrency slot, with its attempts used up, whatever
\* the error status.
C33_NoSleepAfterLastAttempt ==
    \A r \in Records :
        (Embedding /\ workers[r].st = "sleeping") => workers[r].attempt < maxRetries

Importing == program = "download-batch-results"

\* the documents of the output file's lines that answered 200 for a test
\* case of testcases.json
importableDocuments(lines) ==
    {importDocument(lines[k]) :
        k \in {n \in 1..Len(lines) : /\ lines[n].status_code = 200
                                     /\ lines[n].custom_id \in 1..testcases}}

\* C34: the import writes to the store only when the retrieved batch has
\* status completed, and with any other status it ends without a store
\* write; every document it adds comes from a line with status code 200
\* whose custom_id is a known test case; and every document that was in the
\* store stays in it unchanged.
C34_ImportOnlyCompletedBatches ==
    /\ [](Importing =>
            /\ mainPc = "exited" <=>
                  (batchStatus \in BatchStatuses /\ batchStatus # "completed")
            /\ mainPc \in {"retrieve", "exited"} =>
                  (documents = <<>> /\ importResults = <<>>))
    /\ [][(Importing /\ store' # store) =>
              /\ batchStatus = "completed"
              /\ store \subseteq store'
              /\ (store' \ store) \subseteq importableDocuments(importResults)]_vars
    /\ [][(Importing /\ mainPc = "exited") => UNCHANGED vars]_vars

C34_Witness ==
    /\ Importing /\ mainPc = "done"
    /\ \E d \in store : d.embeddingMetadata[1].apiSource = "openai-direct"
    /\ \E d \in store : d.embeddingMetadata[1].apiSource = "openai-batch"
    /\ Len(importResults) = 2
    /\ importResults[1].status_code = 400
    /\ importResults[2].status_code = 200

====
